---------------------------- MODULE Spec2Model ----------------------------
(***************************************************************************)
(* Model of the DPR dashboard's client-side API module in its two          *)
(* versions: the mock module (src/lib/api.ts) with the module-level store  *)
(* (dprs, resultsMap), uploadFile, processDocument (the deterministic mock *)
(* scoring pipeline), listDPRs and getResults, and the backend version of  *)
(* the module, whose uploadFile, listDPRs and getResults ask the backend   *)
(* first and fall back to the store; the pure helpers score, hash,         *)
(* clamp01, buildRecommendations, getGradeFromScore and parseRiskScore;    *)
(* and the pages of the dashboard that call the module.                    *)
(*                                                                         *)
(* Conventions                                                             *)
(*  - A JavaScript string is a sequence of UTF-16 code units (naturals).   *)
(*  - A 32-bit integer is a record [hi, lo] of two 16-bit halves, value    *)
(*    hi * 65536 + lo, so that Math.imul and "| 0" wrap exactly as in the  *)
(*    source without leaving the checker's integer range.                  *)
(*  - A risk value of processDocument (a double in the source) is an       *)
(*    integer number of thousandths: 0.7 * (b / 100) is 7 * b, 1 is 1000.  *)
(*  - A risk value of getResults is a record [m, e], the decimal number    *)
(*    m / 10^e without trailing zeros.                                     *)
(*  - An absent (undefined) object property is a missing record field.     *)
(***************************************************************************)
EXTENDS Integers, Sequences, FiniteSets, TLC

VARIABLES
  dprs,        \* module-level list of DPRFile records, most recent first
  resultsMap,  \* module-level map uploadId -> ProcessingResult
  pending,     \* calls that have started and are suspended at an await
  returned,    \* the value most recently handed back to a caller
  observed,    \* history: the documents and the results the calls have returned
  args,        \* input of a pure helper under test
  out,         \* output of a pure helper under test
  appDprs,     \* AppProvider state: the context's list of DPRFile records
  results,     \* AppProvider state: the context's map id -> ProcessingResult
  page,        \* UploadPage: its state and the handleUpload runs under way
  resultsPage, \* ResultsPage: its state and where its fetch stands
  archivePage  \* ArchivePage: its state and the list requests in flight

vars == <<dprs, resultsMap, pending, returned, observed, args, out,
          appDprs, results, page, resultsPage, archivePage>>

\* the two pages that only read the store
readers == <<resultsPage, archivePage>>

\* the state of the React application around the api module
app == <<appDprs, results, page, readers>>

-----------------------------------------------------------------------------
(* Bounds of the model *)

\* longest upload id drawn for a single analysis
MaxIdLen == 4
\* most documents kept in the module-level list
MaxDprs == 2
\* most calls suspended at an await at the same time
MaxInFlight == 1
\* longest list of boolean checks handed to score
MaxChecks == 5
\* largest outOf handed to score
MaxOutOf == 30
\* largest total handed to the grade functions
MaxGradeInput == 170
\* longest overallRiskScore text handed to parseRiskScore
MaxRiskLen == 4
\* largest percentage of a category result shown on a score card
MaxPercent == 100
MaxConcurrent == 2    \* calls suspended at once when calls overlap
MaxFetches == 2       \* fetches one ResultsPage issues
MaxUrlChanges == 1    \* changes of the URL while the ResultsPage is open
MaxAdded == 1         \* documents added to the context beside a ResultsPage
MaxQueries == 2       \* changes of the search query on one ArchivePage

-----------------------------------------------------------------------------
(* Strings *)

\* code units of "0", "9", "a", "z": ids are base-36 text (Math.random().toString(36))
IdChars == {48, 57, 97, 122}

EN == <<69, 78>>
HI == <<72, 73>>
Regional == <<82, 101, 103, 105, 111, 110, 97, 108>>
LanguageOption == {EN, HI, Regional}

RECURSIVE StringsOfLen(_)
StringsOfLen(n) ==
  IF n = 0 THEN {<<>>}
  ELSE {Append(s, c) : s \in StringsOfLen(n - 1), c \in IdChars}

\* every id of 1..MaxIdLen characters over IdChars
UploadIds == UNION {StringsOfLen(n) : n \in 1..MaxIdLen}

\* Math.random().toString(36).slice(2, 10): eight characters as a rule
\* ("4fzyo82m"), fewer when the fraction is short, none ("") when
\* Math.random() is 0
StoreIds == {<<52, 102, 122, 121, 111, 56, 50, 109>>, <<>>}
StoreLanguages == {EN, Regional}
-----------------------------------------------------------------------------
(* hash: h = (Math.imul(31, h) + s.charCodeAt(i)) | 0 over the string, then *)
(* Math.abs(h).                                                             *)

\* one round of the loop on the unsigned 32-bit pattern of h
HashStep(h, c) ==
  LET lo == 31 * h.lo + c
      hi == 31 * h.hi + (lo \div 65536)
  IN  [hi |-> hi % 65536, lo |-> lo % 65536]

RECURSIVE HashLoop(_, _, _)
HashLoop(s, i, h) ==
  IF i > Len(s) THEN h ELSE HashLoop(s, i + 1, HashStep(h, s[i]))

\* Math.abs of the signed reading of a 32-bit pattern; -2^31 becomes 2^31
Abs32(h) ==
  IF h.hi < 32768 THEN h
  ELSE [hi |-> 65536 - h.hi - (IF h.lo = 0 THEN 0 ELSE 1),
        lo |-> (65536 - h.lo) % 65536]

hash(s) == Abs32(HashLoop(s, 1, [hi |-> 0, lo |-> 0]))

\* seed % k for a small positive k
SeedMod(seed, k) == ((seed.hi % k) * (65536 % k) + seed.lo) % k

-----------------------------------------------------------------------------
(* Pure helpers of the scoring pipeline *)

\* the value of 0 / 0 and of everything computed from it
NaN == "NaN"

CountTrue(flags) == Cardinality({i \in 1..Len(flags) : flags[i]})

\* Math.round(q) for the rational q = num / den, den > 0: halves round up
RoundDiv(num, den) == (2 * num + den) \div (2 * den)

\* faulty variant of score: the count is not divided by flags.length
scoreNoRatio(flags, outOf) ==
  IF Len(flags) = 0 THEN NaN ELSE CountTrue(flags) * outOf

\* faulty variant of score: Math.floor in place of Math.round
scoreFloor(flags, outOf) ==
  IF Len(flags) = 0 THEN NaN ELSE (CountTrue(flags) * outOf) \div Len(flags)

\* score(flags, outOf): Math.round((count of true / flags.length) * outOf)
score(flags, outOf) ==
  IF Len(flags) = 0 THEN NaN
  ELSE RoundDiv(CountTrue(flags) * outOf, Len(flags))

Min(a, b) == IF a <= b THEN a ELSE b
Max(a, b) == IF a >= b THEN a ELSE b

\* clamp01(x) = Math.max(0, Math.min(1, x)), x in thousandths
clamp01(x) == Max(0, Min(1000, x))

\* faulty variant of GradeOfTotal: exclusive lower bounds
GradeOfTotalStrict(total) ==
  IF total > 90 THEN "Excellent"
  ELSE IF total > 75 THEN "Good"
  ELSE IF total > 60 THEN "Fair"
  ELSE "Poor"

\* the grade expression of processDocument
GradeOfTotal(total) ==
  IF total >= 90 THEN "Excellent"
  ELSE IF total >= 75 THEN "Good"
  ELSE IF total >= 60 THEN "Fair"
  ELSE "Poor"

\* faulty variant of getGradeFromScore: the first comparison reversed
getGradeFromScoreFlipped(s) ==
  IF s <= 90 THEN "Excellent"
  ELSE IF s >= 75 THEN "Good"
  ELSE IF s >= 60 THEN "Fair"
  ELSE "Poor"

\* getGradeFromScore(score)
getGradeFromScore(s) ==
  IF s >= 90 THEN "Excellent"
  ELSE IF s >= 75 THEN "Good"
  ELSE IF s >= 60 THEN "Fair"
  ELSE "Poor"

RecBudget == "Review budget allocations to resolve mismatches against scope."
RecTimeline == "Adjust project timeline to reflect realistic milestones."
RecMissingData == "Provide missing documentation and KPI evidence."
RecDelay == "Increase monitoring cadence and add buffer for critical path items."
RecCompliance == "Ensure GST, O&M, and certificates are fully documented."
RecTechnical == "Align design with GatiShakti and SOR standards."
RecStrong == "Project is in strong shape. Proceed to approval with standard oversight."

\* recs.push(msg) when cond holds
PushIf(recs, cond, msg) == IF cond THEN Append(recs, msg) ELSE recs

\* faulty variant of buildRecommendations: no fallback message
buildRecommendationsNoFallback(scores, flags, risk) ==
  LET r1 == PushIf(<<>>, flags.budgetMismatch, RecBudget)
      r2 == PushIf(r1, flags.timelineIssues, RecTimeline)
      r3 == PushIf(r2, flags.missingData, RecMissingData)
      r4 == PushIf(r3, risk.delayRisk > 500, RecDelay)
      r5 == PushIf(r4, scores.compliance < 20, RecCompliance)
  IN  PushIf(r5, scores.technicalQuality < 18, RecTechnical)

\* faulty variant of buildRecommendations: delayRisk >= 0.5
buildRecommendationsInclusive(scores, flags, risk) ==
  LET r1 == PushIf(<<>>, flags.budgetMismatch, RecBudget)
      r2 == PushIf(r1, flags.timelineIssues, RecTimeline)
      r3 == PushIf(r2, flags.missingData, RecMissingData)
      r4 == PushIf(r3, risk.delayRisk >= 500, RecDelay)
      r5 == PushIf(r4, scores.compliance < 20, RecCompliance)
      r6 == PushIf(r5, scores.technicalQuality < 18, RecTechnical)
  IN  PushIf(r6, Len(r6) = 0, RecStrong)

\* faulty variant of buildRecommendations: compliance < 19
buildRecommendationsLowCompliance(scores, flags, risk) ==
  LET r1 == PushIf(<<>>, flags.budgetMismatch, RecBudget)
      r2 == PushIf(r1, flags.timelineIssues, RecTimeline)
      r3 == PushIf(r2, flags.missingData, RecMissingData)
      r4 == PushIf(r3, risk.delayRisk > 500, RecDelay)
      r5 == PushIf(r4, scores.compliance < 19, RecCompliance)
      r6 == PushIf(r5, scores.technicalQuality < 18, RecTechnical)
  IN  PushIf(r6, Len(r6) = 0, RecStrong)

\* buildRecommendations(scores, flags, risk); risk.delayRisk > 0.5 is > 500
buildRecommendations(scores, flags, risk) ==
  LET r1 == PushIf(<<>>, flags.budgetMismatch, RecBudget)
      r2 == PushIf(r1, flags.timelineIssues, RecTimeline)
      r3 == PushIf(r2, flags.missingData, RecMissingData)
      r4 == PushIf(r3, risk.delayRisk > 500, RecDelay)
      r5 == PushIf(r4, scores.compliance < 20, RecCompliance)
      r6 == PushIf(r5, scores.technicalQuality < 18, RecTechnical)
  IN  PushIf(r6, Len(r6) = 0, RecStrong)

-----------------------------------------------------------------------------
(* processDocument: the body that runs after the simulated delay *)

\* faulty variant of ValidationOf: omFourYears is derived from seed % 5
ValidationOfOmShifted(seed) ==
  [projectProfile |-> [geoCoordinates |-> TRUE, timeline |-> SeedMod(seed, 7) # 0],
   beneficiary    |-> [sdgMpiAligned |-> SeedMod(seed, 5) # 0, kpisPresent |-> TRUE],
   financial      |-> [gstComponents |-> SeedMod(seed, 3) # 0,
                       omFourYears |-> SeedMod(seed, 5) # 0],
   technical      |-> [gatiShaktiAligned |-> SeedMod(seed, 6) # 0, sorBasis |-> TRUE],
   certificates   |-> [landAvailability |-> SeedMod(seed, 8) # 0,
                       nonDuplication |-> TRUE]]

\* the ValidationResult derived from the seed
ValidationOf(seed) ==
  [projectProfile |-> [geoCoordinates |-> TRUE, timeline |-> SeedMod(seed, 7) # 0],
   beneficiary    |-> [sdgMpiAligned |-> SeedMod(seed, 5) # 0, kpisPresent |-> TRUE],
   financial      |-> [gstComponents |-> SeedMod(seed, 3) # 0,
                       omFourYears |-> SeedMod(seed, 4) # 0],
   technical      |-> [gatiShaktiAligned |-> SeedMod(seed, 6) # 0, sorBasis |-> TRUE],
   certificates   |-> [landAvailability |-> SeedMod(seed, 8) # 0,
                       nonDuplication |-> TRUE]]

\* faulty variant of RiskOf: the penalty is added when the evidence is present
RiskOfPenaltyInverted(seed, vr) ==
  LET b == SeedMod(seed, 100)
  IN  [costOverrunRisk |->
         clamp01(b * 7 + (IF vr.financial.omFourYears THEN 200 ELSE 0)),
       delayRisk |->
         clamp01(b * 6 + (IF vr.projectProfile.timeline THEN 250 ELSE 0)),
       implementationRisk |->
         clamp01(b * 5 + (IF vr.technical.gatiShaktiAligned THEN 200 ELSE 0))]

\* faulty variant of RiskOf: the penalty is subtracted from the weighted base risk
RiskOfPenaltySubtracted(seed, vr) ==
  LET b == SeedMod(seed, 100)
  IN  [costOverrunRisk |->
         clamp01(b * 7 - (IF vr.financial.omFourYears THEN 0 ELSE 200)),
       delayRisk |->
         clamp01(b * 6 - (IF vr.projectProfile.timeline THEN 0 ELSE 250)),
       implementationRisk |->
         clamp01(b * 5 - (IF vr.technical.gatiShaktiAligned THEN 0 ELSE 200))]

\* baseRisk = (seed % 100) / 100 and the three clamped risks, in thousandths
RiskOf(seed, vr) ==
  LET b == SeedMod(seed, 100)
  IN  [costOverrunRisk |->
         clamp01(b * 7 + (IF vr.financial.omFourYears THEN 0 ELSE 200)),
       delayRisk |->
         clamp01(b * 6 + (IF vr.projectProfile.timeline THEN 0 ELSE 250)),
       implementationRisk |->
         clamp01(b * 5 + (IF vr.technical.gatiShaktiAligned THEN 0 ELSE 200))]

\* Math.round((1 - (cost + delay + impl) / 3) * 20) = round((3000 - sum) / 150)
ImpactOf(risk) ==
  RoundDiv(3000 - (risk.costOverrunRisk + risk.delayRisk + risk.implementationRisk),
           150)

\* faulty variant of ClampTotal: a ceiling below the sum of the sub-score ceilings
ClampTotalLow(totalRaw) == Max(0, Min(90, totalRaw))

\* total = Math.max(0, Math.min(100, totalRaw))
ClampTotal(totalRaw) == Max(0, Min(100, totalRaw))

\* the Scores record: three check-based scores, the impact score, total and grade
ScoresOf(vr, risk) ==
  LET completeness == score(<<vr.projectProfile.geoCoordinates,
                              vr.projectProfile.timeline,
                              vr.beneficiary.kpisPresent>>, 30)
      compliance == score(<<vr.financial.gstComponents,
                            vr.financial.omFourYears,
                            vr.certificates.nonDuplication,
                            vr.certificates.landAvailability>>, 25)
      technicalQuality == score(<<vr.technical.gatiShaktiAligned,
                                  vr.technical.sorBasis>>, 25)
      impactSustainability == ImpactOf(risk)
      totalRaw == completeness + compliance + technicalQuality + impactSustainability
      total == ClampTotal(totalRaw)
  IN  [completeness |-> completeness, compliance |-> compliance,
       technicalQuality |-> technicalQuality,
       impactSustainability |-> impactSustainability,
       total |-> total, grade |-> GradeOfTotal(total)]

\* sizeCheckOk, outOfRange: !sizeCheckOk, negativeList
EligibilityOf(seed) ==
  LET sizeCheckOk == SeedMod(seed, 2) = 0
  IN  [sizeCheckOk |-> sizeCheckOk, outOfRange |-> ~sizeCheckOk,
       negativeList |-> SeedMod(seed, 9) = 0]

\* faulty variant of FlagsOf: a flag is raised only where the scored evidence
\* is weak (budgetMismatch follows the missing GST evidence)
FlagsOfScoredEvidence(seed, vr, eligibility) ==
  LET base == [budgetMismatch |-> ~vr.financial.gstComponents /\ SeedMod(seed, 4) = 0,
               timelineIssues |-> ~vr.projectProfile.timeline,
               missingData |-> SeedMod(seed, 6) = 0]
  IN  IF eligibility.negativeList
      THEN [budgetMismatch |-> base.budgetMismatch,
            timelineIssues |-> base.timelineIssues,
            missingData |-> base.missingData,
            ineligibleSector |-> TRUE]
      ELSE base

\* faulty variant of FlagsOf: ineligibleSector always mirrors negativeList
FlagsOfMirrored(seed, vr, eligibility) ==
  [budgetMismatch |-> SeedMod(seed, 4) = 0,
   timelineIssues |-> ~vr.projectProfile.timeline,
   missingData |-> SeedMod(seed, 6) = 0,
   ineligibleSector |-> eligibility.negativeList]

\* ineligibleSector: negativeList || undefined  (true, or no value)
FlagsOf(seed, vr, eligibility) ==
  LET base == [budgetMismatch |-> SeedMod(seed, 4) = 0,
               timelineIssues |-> ~vr.projectProfile.timeline,
               missingData |-> SeedMod(seed, 6) = 0]
  IN  IF eligibility.negativeList
      THEN [budgetMismatch |-> base.budgetMismatch,
            timelineIssues |-> base.timelineIssues,
            missingData |-> base.missingData,
            ineligibleSector |-> TRUE]
      ELSE base

\* the ProcessingResult built from a seed
ResultOfSeed(seed) ==
  LET vr == ValidationOf(seed)
      risk == RiskOf(seed, vr)
      scores == ScoresOf(vr, risk)
      eligibility == EligibilityOf(seed)
      flags == FlagsOf(seed, vr, eligibility)
  IN  [validation |-> vr, scores |-> scores, eligibility |-> eligibility,
       flags |-> flags, risk |-> risk,
       recommendations |-> buildRecommendations(scores, flags, risk)]

\* seed = hash(params.uploadId + params.language)
SeedOf(uploadId, language) == hash(uploadId \o language)

\* the result processDocument computes for its parameters
ProcessResult(uploadId, language) == ResultOfSeed(SeedOf(uploadId, language))

-----------------------------------------------------------------------------
(* getResults: the transformation of a backend response *)

IsDigit(c) == c \in 48..57

\* Lowercase_Mapping of the Unicode Character Database (Unicode 17.0) as
\* runs <<first, last, step, delta>>: a code point c of a run with
\* (c - first) % step = 0 becomes c + delta
LowerRanges ==
  <<<<65, 90, 1, 32>>, <<192, 214, 1, 32>>, <<216, 222, 1, 32>>,
    <<256, 302, 2, 1>>, <<306, 310, 2, 1>>, <<313, 327, 2, 1>>,
    <<330, 374, 2, 1>>, <<376, 376, 1, -121>>, <<377, 381, 2, 1>>,
    <<385, 385, 1, 210>>, <<386, 388, 2, 1>>, <<390, 390, 1, 206>>,
    <<391, 391, 1, 1>>, <<393, 394, 1, 205>>, <<395, 395, 1, 1>>,
    <<398, 398, 1, 79>>, <<399, 399, 1, 202>>, <<400, 400, 1, 203>>,
    <<401, 401, 1, 1>>, <<403, 403, 1, 205>>, <<404, 404, 1, 207>>,
    <<406, 406, 1, 211>>, <<407, 407, 1, 209>>, <<408, 408, 1, 1>>,
    <<412, 412, 1, 211>>, <<413, 413, 1, 213>>, <<415, 415, 1, 214>>,
    <<416, 420, 2, 1>>, <<422, 422, 1, 218>>, <<423, 423, 1, 1>>,
    <<425, 425, 1, 218>>, <<428, 428, 1, 1>>, <<430, 430, 1, 218>>,
    <<431, 431, 1, 1>>, <<433, 434, 1, 217>>, <<435, 437, 2, 1>>,
    <<439, 439, 1, 219>>, <<440, 440, 1, 1>>, <<444, 444, 1, 1>>,
    <<452, 452, 1, 2>>, <<453, 453, 1, 1>>, <<455, 455, 1, 2>>,
    <<456, 456, 1, 1>>, <<458, 458, 1, 2>>, <<459, 475, 2, 1>>,
    <<478, 494, 2, 1>>, <<497, 497, 1, 2>>, <<498, 500, 2, 1>>,
    <<502, 502, 1, -97>>, <<503, 503, 1, -56>>, <<504, 542, 2, 1>>,
    <<544, 544, 1, -130>>, <<546, 562, 2, 1>>, <<570, 570, 1, 10795>>,
    <<571, 571, 1, 1>>, <<573, 573, 1, -163>>, <<574, 574, 1, 10792>>,
    <<577, 577, 1, 1>>, <<579, 579, 1, -195>>, <<580, 580, 1, 69>>,
    <<581, 581, 1, 71>>, <<582, 590, 2, 1>>, <<880, 882, 2, 1>>,
    <<886, 886, 1, 1>>, <<895, 895, 1, 116>>, <<902, 902, 1, 38>>,
    <<904, 906, 1, 37>>, <<908, 908, 1, 64>>, <<910, 911, 1, 63>>,
    <<913, 929, 1, 32>>, <<931, 939, 1, 32>>, <<975, 975, 1, 8>>,
    <<984, 1006, 2, 1>>, <<1012, 1012, 1, -60>>, <<1015, 1015, 1, 1>>,
    <<1017, 1017, 1, -7>>, <<1018, 1018, 1, 1>>, <<1021, 1023, 1, -130>>,
    <<1024, 1039, 1, 80>>, <<1040, 1071, 1, 32>>, <<1120, 1152, 2, 1>>,
    <<1162, 1214, 2, 1>>, <<1216, 1216, 1, 15>>, <<1217, 1229, 2, 1>>,
    <<1232, 1326, 2, 1>>, <<1329, 1366, 1, 48>>, <<4256, 4293, 1, 7264>>,
    <<4295, 4295, 1, 7264>>, <<4301, 4301, 1, 7264>>,
    <<5024, 5103, 1, 38864>>, <<5104, 5109, 1, 8>>, <<7305, 7305, 1, 1>>,
    <<7312, 7354, 1, -3008>>, <<7357, 7359, 1, -3008>>, <<7680, 7828, 2, 1>>,
    <<7838, 7838, 1, -7615>>, <<7840, 7934, 2, 1>>, <<7944, 7951, 1, -8>>,
    <<7960, 7965, 1, -8>>, <<7976, 7983, 1, -8>>, <<7992, 7999, 1, -8>>,
    <<8008, 8013, 1, -8>>, <<8025, 8031, 2, -8>>, <<8040, 8047, 1, -8>>,
    <<8072, 8079, 1, -8>>, <<8088, 8095, 1, -8>>, <<8104, 8111, 1, -8>>,
    <<8120, 8121, 1, -8>>, <<8122, 8123, 1, -74>>, <<8124, 8124, 1, -9>>,
    <<8136, 8139, 1, -86>>, <<8140, 8140, 1, -9>>, <<8152, 8153, 1, -8>>,
    <<8154, 8155, 1, -100>>, <<8168, 8169, 1, -8>>, <<8170, 8171, 1, -112>>,
    <<8172, 8172, 1, -7>>, <<8184, 8185, 1, -128>>, <<8186, 8187, 1, -126>>,
    <<8188, 8188, 1, -9>>, <<8486, 8486, 1, -7517>>,
    <<8490, 8490, 1, -8383>>, <<8491, 8491, 1, -8262>>,
    <<8498, 8498, 1, 28>>, <<8544, 8559, 1, 16>>, <<8579, 8579, 1, 1>>,
    <<9398, 9423, 1, 26>>, <<11264, 11311, 1, 48>>, <<11360, 11360, 1, 1>>,
    <<11362, 11362, 1, -10743>>, <<11363, 11363, 1, -3814>>,
    <<11364, 11364, 1, -10727>>, <<11367, 11371, 2, 1>>,
    <<11373, 11373, 1, -10780>>, <<11374, 11374, 1, -10749>>,
    <<11375, 11375, 1, -10783>>, <<11376, 11376, 1, -10782>>,
    <<11378, 11378, 1, 1>>, <<11381, 11381, 1, 1>>,
    <<11390, 11391, 1, -10815>>, <<11392, 11490, 2, 1>>,
    <<11499, 11501, 2, 1>>, <<11506, 11506, 1, 1>>, <<42560, 42604, 2, 1>>,
    <<42624, 42650, 2, 1>>, <<42786, 42798, 2, 1>>, <<42802, 42862, 2, 1>>,
    <<42873, 42875, 2, 1>>, <<42877, 42877, 1, -35332>>,
    <<42878, 42886, 2, 1>>, <<42891, 42891, 1, 1>>,
    <<42893, 42893, 1, -42280>>, <<42896, 42898, 2, 1>>,
    <<42902, 42920, 2, 1>>, <<42922, 42922, 1, -42308>>,
    <<42923, 42923, 1, -42319>>, <<42924, 42924, 1, -42315>>,
    <<42925, 42925, 1, -42305>>, <<42926, 42926, 1, -42308>>,
    <<42928, 42928, 1, -42258>>, <<42929, 42929, 1, -42282>>,
    <<42930, 42930, 1, -42261>>, <<42931, 42931, 1, 928>>,
    <<42932, 42946, 2, 1>>, <<42948, 42948, 1, -48>>,
    <<42949, 42949, 1, -42307>>, <<42950, 42950, 1, -35384>>,
    <<42951, 42953, 2, 1>>, <<42955, 42955, 1, -42343>>,
    <<42956, 42970, 2, 1>>, <<42972, 42972, 1, -42561>>,
    <<42997, 42997, 1, 1>>, <<65313, 65338, 1, 32>>, <<66560, 66599, 1, 40>>,
    <<66736, 66771, 1, 40>>, <<66928, 66938, 1, 39>>,
    <<66940, 66954, 1, 39>>, <<66956, 66962, 1, 39>>,
    <<66964, 66965, 1, 39>>, <<68736, 68786, 1, 64>>,
    <<68944, 68965, 1, 32>>, <<71840, 71871, 1, 32>>,
    <<93760, 93791, 1, 32>>, <<93856, 93880, 1, 27>>,
    <<125184, 125217, 1, 34>>>>

\* the code points with the property Cased that are not Case_Ignorable
\* (Unicode 17.0)
CasedRanges ==
  <<<<65, 90>>, <<97, 122>>, <<170, 170>>, <<181, 181>>, <<186, 186>>,
    <<192, 214>>, <<216, 246>>, <<248, 442>>, <<444, 447>>, <<452, 659>>,
    <<662, 687>>, <<880, 883>>, <<886, 887>>, <<891, 893>>, <<895, 895>>,
    <<902, 902>>, <<904, 906>>, <<908, 908>>, <<910, 929>>, <<931, 1013>>,
    <<1015, 1153>>, <<1162, 1327>>, <<1329, 1366>>, <<1376, 1416>>,
    <<4256, 4293>>, <<4295, 4295>>, <<4301, 4301>>, <<4304, 4346>>,
    <<4349, 4351>>, <<5024, 5109>>, <<5112, 5117>>, <<7296, 7306>>,
    <<7312, 7354>>, <<7357, 7359>>, <<7424, 7467>>, <<7531, 7543>>,
    <<7545, 7578>>, <<7680, 7957>>, <<7960, 7965>>, <<7968, 8005>>,
    <<8008, 8013>>, <<8016, 8023>>, <<8025, 8025>>, <<8027, 8027>>,
    <<8029, 8029>>, <<8031, 8061>>, <<8064, 8116>>, <<8118, 8124>>,
    <<8126, 8126>>, <<8130, 8132>>, <<8134, 8140>>, <<8144, 8147>>,
    <<8150, 8155>>, <<8160, 8172>>, <<8178, 8180>>, <<8182, 8188>>,
    <<8450, 8450>>, <<8455, 8455>>, <<8458, 8467>>, <<8469, 8469>>,
    <<8473, 8477>>, <<8484, 8484>>, <<8486, 8486>>, <<8488, 8488>>,
    <<8490, 8493>>, <<8495, 8500>>, <<8505, 8505>>, <<8508, 8511>>,
    <<8517, 8521>>, <<8526, 8526>>, <<8544, 8575>>, <<8579, 8580>>,
    <<9398, 9449>>, <<11264, 11387>>, <<11390, 11492>>, <<11499, 11502>>,
    <<11506, 11507>>, <<11520, 11557>>, <<11559, 11559>>, <<11565, 11565>>,
    <<42560, 42605>>, <<42624, 42651>>, <<42786, 42863>>, <<42865, 42887>>,
    <<42891, 42894>>, <<42896, 42972>>, <<42997, 42998>>, <<43002, 43002>>,
    <<43824, 43866>>, <<43872, 43880>>, <<43888, 43967>>, <<64256, 64262>>,
    <<64275, 64279>>, <<65313, 65338>>, <<65345, 65370>>, <<66560, 66639>>,
    <<66736, 66771>>, <<66776, 66811>>, <<66928, 66938>>, <<66940, 66954>>,
    <<66956, 66962>>, <<66964, 66965>>, <<66967, 66977>>, <<66979, 66993>>,
    <<66995, 67001>>, <<67003, 67004>>, <<68736, 68786>>, <<68800, 68850>>,
    <<68944, 68965>>, <<68976, 68997>>, <<71840, 71903>>, <<93760, 93823>>,
    <<93856, 93880>>, <<93883, 93907>>, <<119808, 119892>>,
    <<119894, 119964>>, <<119966, 119967>>, <<119970, 119970>>,
    <<119973, 119974>>, <<119977, 119980>>, <<119982, 119993>>,
    <<119995, 119995>>, <<119997, 120003>>, <<120005, 120069>>,
    <<120071, 120074>>, <<120077, 120084>>, <<120086, 120092>>,
    <<120094, 120121>>, <<120123, 120126>>, <<120128, 120132>>,
    <<120134, 120134>>, <<120138, 120144>>, <<120146, 120485>>,
    <<120488, 120512>>, <<120514, 120538>>, <<120540, 120570>>,
    <<120572, 120596>>, <<120598, 120628>>, <<120630, 120654>>,
    <<120656, 120686>>, <<120688, 120712>>, <<120714, 120744>>,
    <<120746, 120770>>, <<120772, 120779>>, <<122624, 122633>>,
    <<122635, 122654>>, <<122661, 122666>>, <<125184, 125251>>,
    <<127280, 127305>>, <<127312, 127337>>, <<127344, 127369>>>>

\* the code points with the property Case_Ignorable (Unicode 17.0)
CaseIgnorableRanges ==
  <<<<39, 39>>, <<46, 46>>, <<58, 58>>, <<94, 94>>, <<96, 96>>, <<168, 168>>,
    <<173, 173>>, <<175, 175>>, <<180, 180>>, <<183, 184>>, <<688, 879>>,
    <<884, 885>>, <<890, 890>>, <<900, 901>>, <<903, 903>>, <<1155, 1161>>,
    <<1369, 1369>>, <<1375, 1375>>, <<1425, 1469>>, <<1471, 1471>>,
    <<1473, 1474>>, <<1476, 1477>>, <<1479, 1479>>, <<1524, 1524>>,
    <<1536, 1541>>, <<1552, 1562>>, <<1564, 1564>>, <<1600, 1600>>,
    <<1611, 1631>>, <<1648, 1648>>, <<1750, 1757>>, <<1759, 1768>>,
    <<1770, 1773>>, <<1807, 1807>>, <<1809, 1809>>, <<1840, 1866>>,
    <<1958, 1968>>, <<2027, 2037>>, <<2042, 2042>>, <<2045, 2045>>,
    <<2070, 2093>>, <<2137, 2139>>, <<2184, 2184>>, <<2192, 2193>>,
    <<2199, 2207>>, <<2249, 2306>>, <<2362, 2362>>, <<2364, 2364>>,
    <<2369, 2376>>, <<2381, 2381>>, <<2385, 2391>>, <<2402, 2403>>,
    <<2417, 2417>>, <<2433, 2433>>, <<2492, 2492>>, <<2497, 2500>>,
    <<2509, 2509>>, <<2530, 2531>>, <<2558, 2558>>, <<2561, 2562>>,
    <<2620, 2620>>, <<2625, 2626>>, <<2631, 2632>>, <<2635, 2637>>,
    <<2641, 2641>>, <<2672, 2673>>, <<2677, 2677>>, <<2689, 2690>>,
    <<2748, 2748>>, <<2753, 2757>>, <<2759, 2760>>, <<2765, 2765>>,
    <<2786, 2787>>, <<2810, 2815>>, <<2817, 2817>>, <<2876, 2876>>,
    <<2879, 2879>>, <<2881, 2884>>, <<2893, 2893>>, <<2901, 2902>>,
    <<2914, 2915>>, <<2946, 2946>>, <<3008, 3008>>, <<3021, 3021>>,
    <<3072, 3072>>, <<3076, 3076>>, <<3132, 3132>>, <<3134, 3136>>,
    <<3142, 3144>>, <<3146, 3149>>, <<3157, 3158>>, <<3170, 3171>>,
    <<3201, 3201>>, <<3260, 3260>>, <<3263, 3263>>, <<3270, 3270>>,
    <<3276, 3277>>, <<3298, 3299>>, <<3328, 3329>>, <<3387, 3388>>,
    <<3393, 3396>>, <<3405, 3405>>, <<3426, 3427>>, <<3457, 3457>>,
    <<3530, 3530>>, <<3538, 3540>>, <<3542, 3542>>, <<3633, 3633>>,
    <<3636, 3642>>, <<3654, 3662>>, <<3761, 3761>>, <<3764, 3772>>,
    <<3782, 3782>>, <<3784, 3790>>, <<3864, 3865>>, <<3893, 3893>>,
    <<3895, 3895>>, <<3897, 3897>>, <<3953, 3966>>, <<3968, 3972>>,
    <<3974, 3975>>, <<3981, 3991>>, <<3993, 4028>>, <<4038, 4038>>,
    <<4141, 4144>>, <<4146, 4151>>, <<4153, 4154>>, <<4157, 4158>>,
    <<4184, 4185>>, <<4190, 4192>>, <<4209, 4212>>, <<4226, 4226>>,
    <<4229, 4230>>, <<4237, 4237>>, <<4253, 4253>>, <<4348, 4348>>,
    <<4957, 4959>>, <<5906, 5908>>, <<5938, 5939>>, <<5970, 5971>>,
    <<6002, 6003>>, <<6068, 6069>>, <<6071, 6077>>, <<6086, 6086>>,
    <<6089, 6099>>, <<6103, 6103>>, <<6109, 6109>>, <<6155, 6159>>,
    <<6211, 6211>>, <<6277, 6278>>, <<6313, 6313>>, <<6432, 6434>>,
    <<6439, 6440>>, <<6450, 6450>>, <<6457, 6459>>, <<6679, 6680>>,
    <<6683, 6683>>, <<6742, 6742>>, <<6744, 6750>>, <<6752, 6752>>,
    <<6754, 6754>>, <<6757, 6764>>, <<6771, 6780>>, <<6783, 6783>>,
    <<6823, 6823>>, <<6832, 6877>>, <<6880, 6891>>, <<6912, 6915>>,
    <<6964, 6964>>, <<6966, 6970>>, <<6972, 6972>>, <<6978, 6978>>,
    <<7019, 7027>>, <<7040, 7041>>, <<7074, 7077>>, <<7080, 7081>>,
    <<7083, 7085>>, <<7142, 7142>>, <<7144, 7145>>, <<7149, 7149>>,
    <<7151, 7153>>, <<7212, 7219>>, <<7222, 7223>>, <<7288, 7293>>,
    <<7376, 7378>>, <<7380, 7392>>, <<7394, 7400>>, <<7405, 7405>>,
    <<7412, 7412>>, <<7416, 7417>>, <<7468, 7530>>, <<7544, 7544>>,
    <<7579, 7679>>, <<8125, 8125>>, <<8127, 8129>>, <<8141, 8143>>,
    <<8157, 8159>>, <<8173, 8175>>, <<8189, 8190>>, <<8203, 8207>>,
    <<8216, 8217>>, <<8228, 8228>>, <<8231, 8231>>, <<8234, 8238>>,
    <<8288, 8292>>, <<8294, 8303>>, <<8305, 8305>>, <<8319, 8319>>,
    <<8336, 8348>>, <<8400, 8432>>, <<11388, 11389>>, <<11503, 11505>>,
    <<11631, 11631>>, <<11647, 11647>>, <<11744, 11775>>, <<11823, 11823>>,
    <<12293, 12293>>, <<12330, 12333>>, <<12337, 12341>>, <<12347, 12347>>,
    <<12441, 12446>>, <<12540, 12542>>, <<40981, 40981>>, <<42232, 42237>>,
    <<42508, 42508>>, <<42607, 42610>>, <<42612, 42621>>, <<42623, 42623>>,
    <<42652, 42655>>, <<42736, 42737>>, <<42752, 42785>>, <<42864, 42864>>,
    <<42888, 42890>>, <<42993, 42996>>, <<43000, 43001>>, <<43010, 43010>>,
    <<43014, 43014>>, <<43019, 43019>>, <<43045, 43046>>, <<43052, 43052>>,
    <<43204, 43205>>, <<43232, 43249>>, <<43263, 43263>>, <<43302, 43309>>,
    <<43335, 43345>>, <<43392, 43394>>, <<43443, 43443>>, <<43446, 43449>>,
    <<43452, 43453>>, <<43471, 43471>>, <<43493, 43494>>, <<43561, 43566>>,
    <<43569, 43570>>, <<43573, 43574>>, <<43587, 43587>>, <<43596, 43596>>,
    <<43632, 43632>>, <<43644, 43644>>, <<43696, 43696>>, <<43698, 43700>>,
    <<43703, 43704>>, <<43710, 43711>>, <<43713, 43713>>, <<43741, 43741>>,
    <<43756, 43757>>, <<43763, 43764>>, <<43766, 43766>>, <<43867, 43871>>,
    <<43881, 43883>>, <<44005, 44005>>, <<44008, 44008>>, <<44013, 44013>>,
    <<64286, 64286>>, <<64434, 64450>>, <<65024, 65039>>, <<65043, 65043>>,
    <<65056, 65071>>, <<65106, 65106>>, <<65109, 65109>>, <<65279, 65279>>,
    <<65287, 65287>>, <<65294, 65294>>, <<65306, 65306>>, <<65342, 65342>>,
    <<65344, 65344>>, <<65392, 65392>>, <<65438, 65439>>, <<65507, 65507>>,
    <<65529, 65531>>, <<66045, 66045>>, <<66272, 66272>>, <<66422, 66426>>,
    <<67456, 67461>>, <<67463, 67504>>, <<67506, 67514>>, <<68097, 68099>>,
    <<68101, 68102>>, <<68108, 68111>>, <<68152, 68154>>, <<68159, 68159>>,
    <<68325, 68326>>, <<68900, 68903>>, <<68942, 68942>>, <<68969, 68973>>,
    <<68975, 68975>>, <<69291, 69292>>, <<69317, 69317>>, <<69370, 69375>>,
    <<69446, 69456>>, <<69506, 69509>>, <<69633, 69633>>, <<69688, 69702>>,
    <<69744, 69744>>, <<69747, 69748>>, <<69759, 69761>>, <<69811, 69814>>,
    <<69817, 69818>>, <<69821, 69821>>, <<69826, 69826>>, <<69837, 69837>>,
    <<69888, 69890>>, <<69927, 69931>>, <<69933, 69940>>, <<70003, 70003>>,
    <<70016, 70017>>, <<70070, 70078>>, <<70089, 70092>>, <<70095, 70095>>,
    <<70191, 70193>>, <<70196, 70196>>, <<70198, 70199>>, <<70206, 70206>>,
    <<70209, 70209>>, <<70367, 70367>>, <<70371, 70378>>, <<70400, 70401>>,
    <<70459, 70460>>, <<70464, 70464>>, <<70502, 70508>>, <<70512, 70516>>,
    <<70587, 70592>>, <<70606, 70606>>, <<70608, 70608>>, <<70610, 70610>>,
    <<70625, 70626>>, <<70712, 70719>>, <<70722, 70724>>, <<70726, 70726>>,
    <<70750, 70750>>, <<70835, 70840>>, <<70842, 70842>>, <<70847, 70848>>,
    <<70850, 70851>>, <<71090, 71093>>, <<71100, 71101>>, <<71103, 71104>>,
    <<71132, 71133>>, <<71219, 71226>>, <<71229, 71229>>, <<71231, 71232>>,
    <<71339, 71339>>, <<71341, 71341>>, <<71344, 71349>>, <<71351, 71351>>,
    <<71453, 71453>>, <<71455, 71455>>, <<71458, 71461>>, <<71463, 71467>>,
    <<71727, 71735>>, <<71737, 71738>>, <<71995, 71996>>, <<71998, 71998>>,
    <<72003, 72003>>, <<72148, 72151>>, <<72154, 72155>>, <<72160, 72160>>,
    <<72193, 72202>>, <<72243, 72248>>, <<72251, 72254>>, <<72263, 72263>>,
    <<72273, 72278>>, <<72281, 72283>>, <<72330, 72342>>, <<72344, 72345>>,
    <<72544, 72544>>, <<72546, 72548>>, <<72550, 72550>>, <<72752, 72758>>,
    <<72760, 72765>>, <<72767, 72767>>, <<72850, 72871>>, <<72874, 72880>>,
    <<72882, 72883>>, <<72885, 72886>>, <<73009, 73014>>, <<73018, 73018>>,
    <<73020, 73021>>, <<73023, 73029>>, <<73031, 73031>>, <<73104, 73105>>,
    <<73109, 73109>>, <<73111, 73111>>, <<73177, 73177>>, <<73459, 73460>>,
    <<73472, 73473>>, <<73526, 73530>>, <<73536, 73536>>, <<73538, 73538>>,
    <<73562, 73562>>, <<78896, 78912>>, <<78919, 78933>>, <<90398, 90409>>,
    <<90413, 90415>>, <<92912, 92916>>, <<92976, 92982>>, <<92992, 92995>>,
    <<93504, 93506>>, <<93547, 93548>>, <<94031, 94031>>, <<94095, 94111>>,
    <<94176, 94177>>, <<94179, 94180>>, <<94194, 94195>>, <<110576, 110579>>,
    <<110581, 110587>>, <<110589, 110590>>, <<113821, 113822>>,
    <<113824, 113827>>, <<118528, 118573>>, <<118576, 118598>>,
    <<119143, 119145>>, <<119155, 119170>>, <<119173, 119179>>,
    <<119210, 119213>>, <<119362, 119364>>, <<121344, 121398>>,
    <<121403, 121452>>, <<121461, 121461>>, <<121476, 121476>>,
    <<121499, 121503>>, <<121505, 121519>>, <<122880, 122886>>,
    <<122888, 122904>>, <<122907, 122913>>, <<122915, 122916>>,
    <<122918, 122922>>, <<122928, 122989>>, <<123023, 123023>>,
    <<123184, 123197>>, <<123566, 123566>>, <<123628, 123631>>,
    <<124139, 124143>>, <<124398, 124399>>, <<124643, 124643>>,
    <<124646, 124646>>, <<124654, 124655>>, <<124661, 124661>>,
    <<124671, 124671>>, <<125136, 125142>>, <<125252, 125259>>,
    <<127995, 127999>>, <<917505, 917505>>, <<917536, 917631>>,
    <<917760, 917999>>>>

\* c lies in one of the runs <<first, last>> of a table
InRanges(c, ranges) ==
  \E i \in 1..Len(ranges) : ranges[i][1] <= c /\ c <= ranges[i][2]

\* the code points of a text of UTF-16 code units: a high surrogate and the
\* low surrogate after it are one code point, any other code unit is its own
RECURSIVE CodePoints(_)
CodePoints(s) ==
  IF s = <<>> THEN <<>>
  ELSE IF Len(s) >= 2 /\ s[1] \in 55296..56319 /\ s[2] \in 56320..57343
  THEN <<65536 + (s[1] - 55296) * 1024 + (s[2] - 56320)>>
       \o CodePoints(SubSeq(s, 3, Len(s)))
  ELSE <<s[1]>> \o CodePoints(Tail(s))

\* the UTF-16 code units of a code point
CodeUnits(c) ==
  IF c < 65536 THEN <<c>>
  ELSE <<55296 + ((c - 65536) \div 1024), 56320 + ((c - 65536) % 1024)>>

\* the lower case of one code point; U+0130 becomes "i" and a combining dot
LowerOf(c) ==
  IF c < 128 THEN IF c \in 65..90 THEN <<c + 32>> ELSE <<c>>
  ELSE IF c = 304 THEN <<105, 775>>
  ELSE LET R == {i \in 1..Len(LowerRanges) :
                    /\ LowerRanges[i][1] <= c
                    /\ c <= LowerRanges[i][2]
                    /\ (c - LowerRanges[i][1]) % LowerRanges[i][3] = 0}
       IN  IF R = {} THEN CodeUnits(c)
           ELSE CodeUnits(c + LowerRanges[CHOOSE i \in R : TRUE][4])

\* Final_Sigma: before position i there is a cased letter, reached over
\* case-ignorable code points only, and after it there is none
FinalSigma(p, i) ==
  /\ \E j \in 1..(i - 1) :
       /\ InRanges(p[j], CasedRanges)
       /\ \A k \in (j + 1)..(i - 1) : InRanges(p[k], CaseIgnorableRanges)
  /\ ~\E j \in (i + 1)..Len(p) :
       /\ InRanges(p[j], CasedRanges)
       /\ \A k \in (i + 1)..(j - 1) : InRanges(p[k], CaseIgnorableRanges)

\* String.prototype.toLowerCase: code point by code point, a capital sigma
\* at the end of a word becoming the final sigma
ToLowerCase(s) ==
  LET p == CodePoints(s)
      RECURSIVE From(_)
      From(i) ==
        IF i > Len(p) THEN <<>>
        ELSE (IF p[i] = 931 /\ FinalSigma(p, i) THEN <<962>> ELSE LowerOf(p[i]))
             \o From(i + 1)
  IN  From(1)

\* s.includes(t)
Includes(s, t) ==
  \E i \in 0..(Len(s) - Len(t)) : \A j \in 1..Len(t) : s[i + j] = t[j]

\* index of the leftmost "(" that a digit follows, 0 when the regex finds none
MatchStart(s) ==
  LET I == {i \in 1..(Len(s) - 1) : s[i] = 40 /\ IsDigit(s[i + 1])}
  IN  IF I = {} THEN 0 ELSE CHOOSE i \in I : \A j \in I : i <= j

\* index after the run of digits that starts at i
RECURSIVE DigitsEnd(_, _)
DigitsEnd(s, i) == IF i <= Len(s) /\ IsDigit(s[i]) THEN DigitsEnd(s, i + 1) ELSE i

\* the natural number written by the digits s[from..to-1]
RECURSIVE DigitsValue(_, _, _, _)
DigitsValue(s, from, to, acc) ==
  IF from >= to THEN acc ELSE DigitsValue(s, from + 1, to, acc * 10 + (s[from] - 48))

RECURSIVE Pow10(_)
Pow10(n) == IF n = 0 THEN 1 ELSE 10 * Pow10(n - 1)

\* the number m / 10^e written without trailing zeros of the fraction; the
\* risks getResults computes are such numbers
RECURSIVE Decimal(_, _)
Decimal(m, e) ==
  IF e > 0 /\ m % 10 = 0 THEN Decimal(m \div 10, e - 1) ELSE [m |-> m, e |-> e]

\* parseFloat(match[1]) / 10 for the capture \d+\.?\d* that starts at index a:
\* all digits of the capture, the point moved one place to the left
CapturedTenth(s, a) ==
  LET e1 == DigitsEnd(s, a)
      hasDot == e1 <= Len(s) /\ s[e1] = 46
      e2 == IF hasDot THEN DigitsEnd(s, e1 + 1) ELSE e1
      whole == DigitsValue(s, a, e1, 0)
  IN  IF hasDot THEN Decimal(DigitsValue(s, e1 + 1, e2, whole), e2 - e1)
      ELSE Decimal(whole, 1)

WordHigh == <<104, 105, 103, 104>>
WordMedium == <<109, 101, 100, 105, 117, 109>>
WordLow == <<108, 111, 119>>

\* parseRiskScore(riskScore) for a string
ParseRiskString(s) ==
  IF Len(s) = 0 THEN Decimal(0, 0)
  ELSE IF MatchStart(s) # 0 THEN CapturedTenth(s, MatchStart(s) + 1)
  ELSE IF Includes(ToLowerCase(s), WordHigh) THEN Decimal(8, 1)
  ELSE IF Includes(ToLowerCase(s), WordMedium) THEN Decimal(5, 1)
  ELSE IF Includes(ToLowerCase(s), WordLow) THEN Decimal(2, 1)
  ELSE Decimal(5, 1)

\* a JSON string and a JSON number as values of a response body
Str(s) == [type |-> "string", text |-> s]
Num(n) == [type |-> "number", number |-> n]

\* data.riskAnalysis?.overallRiskScore is present
HasRiskScore(data) ==
  "riskAnalysis" \in DOMAIN data /\ "overallRiskScore" \in DOMAIN data.riskAnalysis

\* parseRiskScore throws: a number other than 0 passes !riskScore and has no
\* match method (TypeError)
parseRiskScoreThrows(data) ==
  /\ HasRiskScore(data)
  /\ data.riskAnalysis.overallRiskScore.type = "number"
  /\ data.riskAnalysis.overallRiskScore.number # 0

\* parseRiskScore(data.riskAnalysis?.overallRiskScore) where it returns: 0
\* for none, for "" and for the number 0
parseRiskScore(data) ==
  IF HasRiskScore(data) /\ data.riskAnalysis.overallRiskScore.type = "string"
  THEN ParseRiskString(data.riskAnalysis.overallRiskScore.text)
  ELSE Decimal(0, 0)

\* data.scoreAnalysis?.<field> || 0
ScoreField(data, field) ==
  IF "scoreAnalysis" \in DOMAIN data /\ field \in DOMAIN data.scoreAnalysis
  THEN data.scoreAnalysis[field]
  ELSE 0

\* the ProcessingResult getResults builds from the JSON object of an OK
\* response
TransformBackend(data) ==
  [validation |->
     [projectProfile |-> [geoCoordinates |-> TRUE, timeline |-> TRUE],
      beneficiary    |-> [sdgMpiAligned |-> TRUE, kpisPresent |-> TRUE],
      financial      |-> [gstComponents |-> TRUE, omFourYears |-> TRUE],
      technical      |-> [gatiShaktiAligned |-> TRUE, sorBasis |-> TRUE],
      certificates   |-> [landAvailability |-> TRUE, nonDuplication |-> TRUE]],
   scores |->
     [completeness |-> ScoreField(data, "completeness_score"),
      compliance |-> ScoreField(data, "compliance_score"),
      technicalQuality |-> ScoreField(data, "technical_score"),
      impactSustainability |-> ScoreField(data, "impact_score"),
      total |-> ScoreField(data, "total_score"),
      grade |-> getGradeFromScore(ScoreField(data, "total_score"))],
   eligibility |-> [sizeCheckOk |-> TRUE, negativeList |-> FALSE],
   flags |-> [budgetMismatch |-> FALSE, timelineIssues |-> FALSE,
              missingData |-> FALSE],
   risk |-> [costOverrunRisk |-> parseRiskScore(data),
             delayRisk |-> parseRiskScore(data),
             implementationRisk |-> parseRiskScore(data)],
   recommendations |->
     IF "riskAnalysis" \in DOMAIN data /\ "recommendations" \in DOMAIN data.riskAnalysis
     THEN data.riskAnalysis.recommendations
     ELSE <<>>]

\* score analyses a backend may send: the enhanced scheme (out of 165) and the
\* basic one (out of 100)
ScoreAnalyses ==
  {[completeness_score |-> 80, compliance_score |-> 10, technical_score |-> 25,
    impact_score |-> 25, total_score |-> 140],
   [completeness_score |-> 20, compliance_score |-> 19, technical_score |-> 13,
    impact_score |-> 12, total_score |-> 64]}

\* risk analyses a backend may send: "High (8.0/10)" with a recommendation,
\* recommendations only, a bare "low", and the score as a number (8, 0)
RiskAnalyses ==
  {[overallRiskScore |-> Str(<<72, 105, 103, 104, 32, 40, 56, 46, 48, 47, 49, 48, 41>>),
    recommendations |-> <<"Strengthen the financial contingency plan.">>],
   [recommendations |-> <<>>],
   [overallRiskScore |-> Str(<<108, 111, 119>>)],
   [overallRiskScore |-> Num(8)],
   [overallRiskScore |-> Num(0)]}

\* JSON objects of an OK response for dprId
BackendBodies(dprId) ==
  {[uploadId |-> dprId]}
  \cup {[uploadId |-> dprId, scoreAnalysis |-> sa] : sa \in ScoreAnalyses}
  \cup {[uploadId |-> dprId, riskAnalysis |-> ra] : ra \in RiskAnalyses}
  \cup {[uploadId |-> dprId, scoreAnalysis |-> sa, riskAnalysis |-> ra] :
          sa \in ScoreAnalyses, ra \in RiskAnalyses}

\* what await response.json() comes to: a JSON object, the JSON value null,
\* or a rejection (the body is not JSON)
Json(data) == [kind |-> "data", data |-> data]
NotJson == [kind |-> "notJson"]
NullBody == [kind |-> "nullBody"]

\* the transformation throws inside the try of getResults: json() rejects,
\* data is null (data.scoreAnalysis), or parseRiskScore throws
TransformThrows(body) ==
  body.kind # "data" \/ parseRiskScoreThrows(body.data)

\* why a body made getResults throw
ThrowOf(body) == IF body.kind = "data" THEN "numberRisk" ELSE body.kind

\* the outcomes of the fetch and of reading the body that take getResults
\* into its catch branch: a non-OK status other than 404, a rejected fetch,
\* and the three bodies on which the transformation throws
Failures == {"serverError", "rejected", "notJson", "nullBody", "numberRisk"}

\* how the fetch of /api/results/{id} settles
ResultStatuses == {"ok", "notFound", "serverError", "rejected"}

\* the bodies the specifications of the calls draw from: a bare object, an
\* object with both analyses, one with a numeric risk score, null, not JSON
StoreBodies(dprId) ==
  {Json(d) : d \in
     {b \in BackendBodies(dprId) :
        \/ DOMAIN b = {"uploadId"}
        \/ /\ DOMAIN b = {"uploadId", "scoreAnalysis", "riskAnalysis"}
           /\ b.scoreAnalysis.total_score = 140
           /\ DOMAIN b.riskAnalysis = {"overallRiskScore", "recommendations"}
        \/ /\ DOMAIN b = {"uploadId", "riskAnalysis"}
           /\ DOMAIN b.riskAnalysis = {"overallRiskScore"}
           /\ b.riskAnalysis.overallRiskScore = Num(8)}}
  \cup {NotJson, NullBody}
-----------------------------------------------------------------------------
(* The module-level store and the calls of the mock module on it *)

\* the file handed to uploadFile: "dpr.pdf"
Files == {[name |-> <<100, 112, 114, 46, 112, 100, 102>>, size |-> 1024]}

Null == [kind |-> "null"]
Undefined == [kind |-> "undefined"]
Value(v) == [kind |-> "value", value |-> v]

\* new Date().toISOString(): the instant of the call; no code reads it back
Now == "2025-01-01T00:00:00.000Z"

UploadCall(file, language) ==
  [op |-> "uploadFile", file |-> file, language |-> language]
ProcessCall(uploadId, language) ==
  [op |-> "processDocument", uploadId |-> uploadId, language |-> language]
ResultsCall(dprId, at) == [op |-> "getResults", dprId |-> dprId, at |-> at]
ListCall(opts) == [op |-> "listDPRs", opts |-> opts]

\* pending lists the suspended calls in the order they reached the await they
\* are suspended at
InFlight == Len(pending)
Suspend(call) == Append(pending, call)
IsPending(call) == \E i \in 1..Len(pending) : pending[i] = call
IndexOf(call) ==
  CHOOSE i \in 1..Len(pending) :
    pending[i] = call /\ \A j \in 1..(i - 1) : pending[j] # call
Resume(call) ==
  SubSeq(pending, 1, IndexOf(call) - 1)
    \o SubSeq(pending, IndexOf(call) + 1, Len(pending))

\* the suspended calls of one operation
PendingOf(op) == {pending[i] : i \in {j \in 1..Len(pending) : pending[j].op = op}}

\* the delay in ms of the timer a suspended call sleeps on, 0 when the call
\* awaits the network (fetch, response.json()) instead
DelayOf(call) ==
  IF "at" \in DOMAIN call /\ call.at \in {"fetch", "json", "errorJson"} THEN 0
  ELSE CASE call.op = "uploadFile" -> 400
         [] call.op = "processDocument" -> 800
         [] call.op \in {"listDPRs", "getResults"} -> 150

\* setTimeout: the timer of the call can expire now, no timer set earlier
\* with the same or a shorter delay is still running
TimerDue(call) ==
  /\ IsPending(call)
  /\ \A j \in 1..(IndexOf(call) - 1) :
       DelayOf(pending[j]) = 0 \/ DelayOf(pending[j]) > DelayOf(call)

DprIds == {dprs[i].id : i \in 1..Len(dprs)}
PendingUploads ==
  Cardinality({i \in 1..Len(pending) : pending[i].op = "uploadFile"})

\* the DPRFile uploadFile builds
UploadedDpr(uploadId, file, language) ==
  [id |-> uploadId, filename |-> file.name, uploadedAt |-> Now,
   language |-> language, status |-> "uploaded", sizeBytes |-> file.size]

\* the function-valued properties an object literal inherits from
\* Object.prototype, with the name of each function
InheritedFunctions ==
  [constructor |-> "Object", toString |-> "toString",
   toLocaleString |-> "toLocaleString", valueOf |-> "valueOf",
   hasOwnProperty |-> "hasOwnProperty", isPrototypeOf |-> "isPrototypeOf",
   propertyIsEnumerable |-> "propertyIsEnumerable",
   __defineGetter__ |-> "__defineGetter__", __defineSetter__ |-> "__defineSetter__",
   __lookupGetter__ |-> "__lookupGetter__", __lookupSetter__ |-> "__lookupSetter__"]

\* the code units of the property names an object of the store can answer
\* for: the functions of Object.prototype and the fields of a result
PropertyNames ==
  [constructor |->
     <<99, 111, 110, 115, 116, 114, 117, 99, 116, 111, 114>>,
   toString |->
     <<116, 111, 83, 116, 114, 105, 110, 103>>,
   toLocaleString |->
     <<116, 111, 76, 111, 99, 97, 108, 101, 83, 116, 114, 105, 110, 103>>,
   valueOf |->
     <<118, 97, 108, 117, 101, 79, 102>>,
   hasOwnProperty |->
     <<104, 97, 115, 79, 119, 110, 80, 114, 111, 112, 101, 114, 116, 121>>,
   isPrototypeOf |->
     <<105, 115, 80, 114, 111, 116, 111, 116, 121, 112, 101, 79, 102>>,
   propertyIsEnumerable |->
     <<112, 114, 111, 112, 101, 114, 116, 121, 73, 115, 69, 110, 117, 109, 101, 114, 97, 98, 108, 101>>,
   __defineGetter__ |->
     <<95, 95, 100, 101, 102, 105, 110, 101, 71, 101, 116, 116, 101, 114, 95, 95>>,
   __defineSetter__ |->
     <<95, 95, 100, 101, 102, 105, 110, 101, 83, 101, 116, 116, 101, 114, 95, 95>>,
   __lookupGetter__ |->
     <<95, 95, 108, 111, 111, 107, 117, 112, 71, 101, 116, 116, 101, 114, 95, 95>>,
   __lookupSetter__ |->
     <<95, 95, 108, 111, 111, 107, 117, 112, 83, 101, 116, 116, 101, 114, 95, 95>>,
   validation |->
     <<118, 97, 108, 105, 100, 97, 116, 105, 111, 110>>,
   scores |->
     <<115, 99, 111, 114, 101, 115>>,
   eligibility |->
     <<101, 108, 105, 103, 105, 98, 105, 108, 105, 116, 121>>,
   flags |->
     <<102, 108, 97, 103, 115>>,
   risk |->
     <<114, 105, 115, 107>>,
   recommendations |->
     <<114, 101, 99, 111, 109, 109, 101, 110, 100, 97, 116, 105, 111, 110, 115>>]

\* the key "__proto__", the accessor of Object.prototype
ProtoKey == <<95, 95, 112, 114, 111, 116, 111, 95, 95>>

\* where the model keeps the prototype of a map: under a key no text equals
ProtoSlot == <<-1>>

\* v is not undefined and not null; every object and function is truthy
Truthy(v) == v.kind \notin {"undefined", "null"}

\* map[key] read from an object literal: the own property, else what the
\* prototype chain gives: the prototype itself under "__proto__" (a result
\* that was made the prototype, else Object.prototype), a field of a result
\* that was made the prototype, a function of Object.prototype
Get(map, key) ==
  LET named == {n \in DOMAIN PropertyNames : PropertyNames[n] = key}
      name == CHOOSE n \in named : TRUE
  IN  IF key \in DOMAIN map \ {ProtoSlot} THEN Value(map[key])
      ELSE IF key = ProtoKey
      THEN IF ProtoSlot \in DOMAIN map THEN Value(map[ProtoSlot])
           ELSE [kind |-> "Object.prototype"]
      ELSE IF ProtoSlot \in DOMAIN map /\ named # {}
              /\ name \in DOMAIN map[ProtoSlot]
      THEN Value(map[ProtoSlot][name])
      ELSE IF named # {} /\ name \in DOMAIN InheritedFunctions
      THEN [kind |-> "function", name |-> InheritedFunctions[name]]
      ELSE Undefined

\* resultsMap[uploadId] = result: an own property, except under "__proto__",
\* where the setter of Object.prototype makes the result the prototype
PutResult(map, uploadId, result) ==
  LET key == IF uploadId = ProtoKey THEN ProtoSlot ELSE uploadId
  IN  [k \in DOMAIN map \cup {key} |-> IF k = key THEN result ELSE map[k]]

\* resultsMap[dprId] || null
OrNull(v) == IF Truthy(v) THEN v ELSE Null

\* the uploadIds processDocument is called with: the ids of id() and "__proto__"
ProcessIds == StoreIds \cup {ProtoKey}

\* the ids getResults is called with: those, "constructor" and "scores"
LookupIds == ProcessIds \cup {PropertyNames.constructor, PropertyNames.scores}

\* the id of the document added to the context beside the results page
PageDocIds == {<<52, 102, 122, 121, 111, 56, 50, 109>>}

\* faulty variant of MarkCompleted: the documents of other ids are dropped
MarkCompletedAlone(list, uploadId) ==
  [i \in 1..Len(SelectSeq(list, LAMBDA d : d.id = uploadId)) |->
     [SelectSeq(list, LAMBDA d : d.id = uploadId)[i] EXCEPT !.status = "completed"]]

\* dprs.map((d) => (d.id === uploadId ? { ...d, status: "completed" } : d))
MarkCompleted(list, uploadId) ==
  [i \in 1..Len(list) |->
     IF list[i].id = uploadId THEN [list[i] EXCEPT !.status = "completed"]
     ELSE list[i]]

\* uploadFile is called: it suspends at await sleep(400)
UploadFileBegin(file, language) ==
  /\ Len(dprs) + PendingUploads < MaxDprs
  /\ pending' = Suspend(UploadCall(file, language))
  /\ UNCHANGED <<dprs, resultsMap, returned, observed, args, out, app>>

UploadFileCall(file, language) ==
  /\ InFlight < MaxInFlight
  /\ UploadFileBegin(file, language)

\* uploadFile resumes: a DPRFile with the id that id() draws, whatever the
\* list holds, is prepended
UploadFileBody(call, newId) ==
  /\ TimerDue(call) /\ call.op = "uploadFile"
  /\ newId \in StoreIds
  /\ LET dpr == UploadedDpr(newId, call.file, call.language)
     IN  /\ dprs' = <<dpr>> \o dprs
         /\ returned' = [op |-> "uploadFile", call |-> call,
                         value |-> Value([uploadId |-> newId, dpr |-> dpr])]
  /\ pending' = Resume(call)
  /\ UNCHANGED <<resultsMap, args, out>>

UploadFileResume(call, newId) ==
  /\ UploadFileBody(call, newId)
  /\ UNCHANGED <<observed, app>>

\* processDocument is called: it suspends at await sleep(800)
ProcessDocumentBegin(uploadId, language) ==
  /\ pending' = Suspend(ProcessCall(uploadId, language))
  /\ UNCHANGED <<dprs, resultsMap, returned, observed, args, out, app>>

ProcessDocumentCall(uploadId, language) ==
  /\ InFlight < MaxInFlight
  /\ ProcessDocumentBegin(uploadId, language)

\* processDocument resumes: computes the result, stores it, marks the document
ProcessDocumentBody(call) ==
  /\ TimerDue(call) /\ call.op = "processDocument"
  /\ LET result == ProcessResult(call.uploadId, call.language)
     IN  /\ resultsMap' = PutResult(resultsMap, call.uploadId, result)
         /\ dprs' = MarkCompleted(dprs, call.uploadId)
         /\ returned' = [op |-> "processDocument", call |-> call,
                         value |-> Value(result)]
  /\ pending' = Resume(call)
  /\ UNCHANGED <<args, out>>

ProcessDocumentResume(call) ==
  /\ ProcessDocumentBody(call)
  /\ UNCHANGED <<observed, app>>

\* the code units String.prototype.trim removes: WhiteSpace and LineTerminator
IsSpace(c) ==
  c \in {9, 10, 11, 12, 13, 32, 160, 5760, 8232, 8233, 8239, 8287, 12288, 65279}
        \cup (8192..8202)

\* String.prototype.trim
RECURSIVE trim(_)
trim(s) ==
  IF s = <<>> THEN s
  ELSE IF IsSpace(Head(s)) THEN trim(Tail(s))
  ELSE IF IsSpace(s[Len(s)]) THEN trim(SubSeq(s, 1, Len(s) - 1))
  ELSE s

\* listDPRs() is called without options
NoOpts == [k \in {} |-> Null]

\* opts?.q?.toLowerCase().trim(), "" standing for undefined (both are falsy)
QueryOf(opts) == IF "q" \in DOMAIN opts THEN trim(ToLowerCase(opts.q)) ELSE <<>>

\* listDPRs on the list it reads: the whole list without q, else the
\* documents whose filename includes q
listDPRs(list, opts) ==
  IF QueryOf(opts) = <<>> THEN list
  ELSE SelectSeq(list, LAMBDA d : Includes(ToLowerCase(d.filename), QueryOf(opts)))

\* the options the store specification hands to listDPRs: none, "PDF", and
\* "x" between an ideographic space and a byte order mark
StoreOpts == {NoOpts, [q |-> <<80, 68, 70>>], [q |-> <<12288, 120, 65279>>]}

\* listDPRs is called: it suspends at await sleep(150)
ListDPRsCall(opts) ==
  /\ InFlight < MaxInFlight
  /\ pending' = Suspend(ListCall(opts))
  /\ UNCHANGED <<dprs, resultsMap, returned, observed, args, out, app>>

\* listDPRs resumes and returns the list or its filtered copy
ListDPRsResume(call) ==
  /\ TimerDue(call) /\ call.op = "listDPRs"
  /\ returned' = [op |-> "listDPRs", call |-> call,
                  value |-> Value(listDPRs(dprs, call.opts))]
  /\ pending' = Resume(call)
  /\ UNCHANGED <<dprs, resultsMap, observed, args, out, app>>

\* getResults is called: it suspends at await sleep(150)
GetResultsCall(dprId) ==
  /\ InFlight < MaxInFlight
  /\ pending' = Suspend(ResultsCall(dprId, "sleep"))
  /\ UNCHANGED <<dprs, resultsMap, returned, observed, args, out, app>>

\* getResults resumes and returns resultsMap[dprId]
GetResultsResume(call) ==
  /\ TimerDue(call) /\ call.op = "getResults" /\ call.at = "sleep"
  /\ returned' = [op |-> "getResults", call |-> call,
                  value |-> Get(resultsMap, call.dprId)]
  /\ pending' = Resume(call)
  /\ UNCHANGED <<dprs, resultsMap, observed, args, out, app>>

NoInput == [fn |-> "none"]
NoOutput == [fn |-> "none"]
NoReturn == [op |-> "none", call |-> Null, value |-> Null]
EmptyMap == [k \in {} |-> Null]

\* a freshly mounted UploadPage: useState(0), useState(0), useState(false),
\* no handleUpload run under way, the page not left for the results view
Idle == [busy |-> FALSE, currentStep |-> 0, progress |-> 0, runs |-> <<>>,
         left |-> FALSE]

\* a page that is not open
NoPage == [open |-> FALSE]

\* the AppProvider state after construction and a freshly mounted UploadPage
AppInit ==
  /\ appDprs = <<>>
  /\ results = EmptyMap
  /\ page = Idle
  /\ resultsPage = NoPage
  /\ archivePage = NoPage

Init ==
  /\ dprs = <<>>
  /\ resultsMap = EmptyMap
  /\ pending = <<>>
  /\ returned = NoReturn
  /\ observed = EmptyMap
  /\ args = NoInput
  /\ out = NoOutput
  /\ AppInit

\* the calls of the mock module, one suspended at a time
Next ==
  \/ \E f \in Files, l \in StoreLanguages : UploadFileCall(f, l)
  \/ \E c \in PendingOf("uploadFile"), id \in StoreIds : UploadFileResume(c, id)
  \/ \E u \in ProcessIds, l \in StoreLanguages : ProcessDocumentCall(u, l)
  \/ \E c \in PendingOf("processDocument") : ProcessDocumentResume(c)
  \/ \E o \in StoreOpts : ListDPRsCall(o)
  \/ \E c \in PendingOf("listDPRs") : ListDPRsResume(c)
  \/ \E d \in LookupIds : GetResultsCall(d)
  \/ \E c \in PendingOf("getResults") : GetResultsResume(c)

Spec == Init /\ [][Next]_vars
-----------------------------------------------------------------------------
(* Overlapping calls: uploadFile and processDocument with up to             *)
(* MaxConcurrent calls suspended at once, resumed in any order. A call runs *)
(* from one await to the next without interruption. The history records    *)
(* what the calls handed back: the documents uploadFile returned, oldest    *)
(* first, for each of them whether a processDocument call for its id has    *)
(* returned since, and per uploadId the result of the processDocument call  *)
(* that returned last.                                                      *)

NoHistory == [uploads |-> <<>>, analysed |-> <<>>, results |-> EmptyMap]

\* uploadFile resumes and the history takes down the document it returns
UploadFileObserved(call, newId) ==
  /\ UploadFileBody(call, newId)
  /\ observed' = [observed EXCEPT
                    !.uploads = Append(@, returned'.value.value.dpr),
                    !.analysed = Append(@, FALSE)]
  /\ UNCHANGED app

\* processDocument resumes and the history takes down the result it returns
\* and the documents returned before that carry its uploadId
ProcessDocumentObserved(call) ==
  /\ ProcessDocumentBody(call)
  /\ observed' = [observed EXCEPT
                    !.analysed =
                       [i \in 1..Len(observed.analysed) |->
                          \/ observed.analysed[i]
                          \/ observed.uploads[i].id = call.uploadId],
                    !.results =
                       [k \in DOMAIN observed.results \cup {call.uploadId} |->
                          IF k = call.uploadId THEN returned'.value.value
                          ELSE observed.results[k]]]
  /\ UNCHANGED app

InitInterleaved ==
  /\ dprs = <<>>
  /\ resultsMap = EmptyMap
  /\ pending = <<>>
  /\ returned = NoReturn
  /\ observed = NoHistory
  /\ args = NoInput
  /\ out = NoOutput
  /\ AppInit

NextInterleaved ==
  \/ \E f \in Files : InFlight < MaxConcurrent /\ UploadFileBegin(f, EN)
  \/ \E c \in PendingOf("uploadFile"), id \in StoreIds : UploadFileObserved(c, id)
  \/ \E u \in ProcessIds, l \in StoreLanguages :
       InFlight < MaxConcurrent /\ ProcessDocumentBegin(u, l)
  \/ \E c \in PendingOf("processDocument") : ProcessDocumentObserved(c)

SpecInterleaved == InitInterleaved /\ [][NextInterleaved]_vars

-----------------------------------------------------------------------------
(* One analysis per behaviour, for every upload id of up to MaxIdLen        *)
(* characters and every language: the call is suspended in processDocument, *)
(* the document either uploaded before or unknown to the store.             *)

InitAnalyze ==
  /\ \E u \in UploadIds, l \in LanguageOption :
       /\ pending = <<ProcessCall(u, l)>>
       /\ \/ dprs = <<>>
          \/ \E f \in Files : dprs = <<UploadedDpr(u, f, l)>>
  /\ resultsMap = EmptyMap
  /\ returned = NoReturn
  /\ observed = EmptyMap
  /\ args = NoInput
  /\ out = NoOutput
  /\ AppInit

NextAnalyze == \E c \in PendingOf("processDocument") : ProcessDocumentResume(c)

SpecAnalyze == InitAnalyze /\ [][NextAnalyze]_vars

\* the call and the result of the processDocument call that has returned
Analyzed == returned.op = "processDocument"
Res == returned.value.value
Seed == SeedOf(returned.call.uploadId, returned.call.language)

-----------------------------------------------------------------------------
(* The pure helpers applied to inputs drawn from bounded sets *)

PureInit(inputs) ==
  /\ args \in inputs
  /\ out = NoOutput
  /\ dprs = <<>>
  /\ resultsMap = EmptyMap
  /\ pending = <<>>
  /\ returned = NoReturn
  /\ observed = EmptyMap
  /\ AppInit

Store == <<dprs, resultsMap, pending, returned, observed, app>>

\* score on every list of one to MaxChecks booleans (processDocument hands
\* over lists of 3, 4 and 2) and every outOf up to MaxOutOf
ScoreInputs ==
  {[fn |-> "score", flags |-> f, outOf |-> n] :
     f \in UNION {[1..k -> BOOLEAN] : k \in 1..MaxChecks}, n \in 0..MaxOutOf}

ApplyScore ==
  /\ args.fn = "score" /\ out = NoOutput
  /\ out' = [fn |-> "score", value |-> score(args.flags, args.outOf)]
  /\ UNCHANGED <<args, Store>>

\* score, alone and as processDocument uses it
InitScore ==
  \/ PureInit(ScoreInputs)
  \/ InitAnalyze

NextScore ==
  \/ ApplyScore
  \/ \E c \in PendingOf("processDocument") : ProcessDocumentResume(c)

SpecScore == InitScore /\ [][NextScore]_vars

\* buildRecommendations on every combination of the three flags, compliance and
\* technicalQuality over their whole ranges and delay risks on both sides of 0.5
RecsInputs ==
  {[fn |-> "buildRecommendations",
    scores |-> [completeness |-> 30, compliance |-> c, technicalQuality |-> t,
                impactSustainability |-> 20, total |-> ClampTotal(50 + c + t),
                grade |-> GradeOfTotal(ClampTotal(50 + c + t))],
    flags |-> [budgetMismatch |-> b, timelineIssues |-> ti, missingData |-> m],
    risk |-> [costOverrunRisk |-> 0, delayRisk |-> d, implementationRisk |-> 0]] :
     c \in 0..25, t \in 0..25, b \in BOOLEAN, ti \in BOOLEAN, m \in BOOLEAN,
     d \in {0, 250, 499, 500, 501, 750, 1000}}

ApplyRecs ==
  /\ args.fn = "buildRecommendations" /\ out = NoOutput
  /\ out' = [fn |-> "buildRecommendations",
             value |-> buildRecommendations(args.scores, args.flags, args.risk)]
  /\ UNCHANGED <<args, Store>>

SpecRecs == PureInit(RecsInputs) /\ [][ApplyRecs]_vars

\* both grade functions on every pair of totals up to MaxGradeInput
GradeInputs ==
  {[fn |-> "grade", t1 |-> a, t2 |-> b] : a \in 0..MaxGradeInput, b \in 0..MaxGradeInput}

ApplyGrade ==
  /\ args.fn = "grade" /\ out = NoOutput
  /\ out' = [fn |-> "grade",
             inline |-> <<GradeOfTotal(args.t1), GradeOfTotal(args.t2)>>,
             helper |-> <<getGradeFromScore(args.t1), getGradeFromScore(args.t2)>>]
  /\ UNCHANGED <<args, Store>>

SpecGrade == PureInit(GradeInputs) /\ [][ApplyGrade]_vars

\* score analyses with their maximum total: the basic scheme (out of 100) and
\* the enhanced one (out of 165), every total up to the maximum
GradedAnalyses ==
  {[completeness_score |-> t, compliance_score |-> 0, technical_score |-> 0,
    impact_score |-> 0, total_score |-> t, max_score |-> m] :
     m \in {100, 165}, t \in 0..MaxGradeInput}

\* JSON objects of an OK response that getResults transforms
TransformInputs ==
  {[fn |-> "getResults", data |-> [uploadId |-> <<97>>, scoreAnalysis |-> sa]] :
     sa \in {a \in GradedAnalyses : a.total_score <= a.max_score}}
  \cup {[fn |-> "getResults", data |-> d] : d \in BackendBodies(<<97>>)}

\* the transformation getResults applies to the JSON object of an OK response
ApplyTransform ==
  /\ args.fn = "getResults" /\ out = NoOutput
  /\ out' = IF TransformThrows(Json(args.data))
            THEN [fn |-> "getResults", thrown |-> "TypeError"]
            ELSE [fn |-> "getResults", value |-> TransformBackend(args.data)]
  /\ UNCHANGED <<args, Store>>

SpecTransform == PureInit(TransformInputs) /\ [][ApplyTransform]_vars

\* code units of "(", ".", "0", "1": enough to write bracketed numbers
RiskChars == {40, 46, 48, 49}

RECURSIVE RiskTexts(_)
RiskTexts(n) ==
  IF n = 0 THEN {<<>>}
  ELSE {Append(s, c) : s \in RiskTexts(n - 1), c \in RiskChars}

\* overallRiskScore values: every text of up to MaxRiskLen characters over
\* RiskChars, "Medium", "(1.234", "(0.999", "(10.001", and the values of
\* RiskAnalyses
RiskScores ==
  {Str(s) : s \in UNION {RiskTexts(n) : n \in 0..MaxRiskLen}}
  \cup {Str(<<77, 101, 100, 105, 117, 109>>),
        Str(<<40, 49, 46, 50, 51, 52>>), Str(<<40, 48, 46, 57, 57, 57>>),
        Str(<<40, 49, 48, 46, 48, 48, 49>>)}
  \cup {ra.overallRiskScore : ra \in {r \in RiskAnalyses : "overallRiskScore" \in DOMAIN r}}

\* response bodies with and without a risk analysis and an overallRiskScore
ParseInputs ==
  {[fn |-> "parseRiskScore",
    data |-> [uploadId |-> <<97>>, riskAnalysis |-> [overallRiskScore |-> s]]] :
     s \in RiskScores}
  \cup {[fn |-> "parseRiskScore", data |-> [uploadId |-> <<97>>]],
        [fn |-> "parseRiskScore",
         data |-> [uploadId |-> <<97>>, riskAnalysis |-> [recommendations |-> <<>>]]]}

\* parseRiskScore as getResults calls it
ApplyParse ==
  /\ args.fn = "parseRiskScore" /\ out = NoOutput
  /\ out' = IF parseRiskScoreThrows(args.data)
            THEN [fn |-> "parseRiskScore", thrown |-> "TypeError"]
            ELSE [fn |-> "parseRiskScore", value |-> parseRiskScore(args.data)]
  /\ UNCHANGED <<args, Store>>

SpecParse == PureInit(ParseInputs) /\ [][ApplyParse]_vars
-----------------------------------------------------------------------------
(* CategoryScoreCard: the analysis-method badge and the score colours of a  *)
(* category result                                                          *)

\* ANALYSIS_METHODS: the display configuration of each known method (the
\* icon in UTF-16 code units)
ANALYSIS_METHODS ==
  [spacy_nlp |->
     [name |-> "Advanced NLP", color |-> "bg-blue-100 text-blue-800 border-blue-200",
      icon |-> <<55358, 56800>>,
      description |-> "spaCy-powered entity recognition and linguistic analysis"],
   semantic_analysis |->
     [name |-> "Semantic AI", color |-> "bg-green-100 text-green-800 border-green-200",
      icon |-> <<55357, 56589>>,
      description |-> "Deep semantic similarity analysis using transformers"],
   gemini_qa |->
     [name |-> "Gemini Q&A", color |-> "bg-purple-100 text-purple-800 border-purple-200",
      icon |-> <<10024>>,
      description |-> "Google Gemini AI-powered question answering"],
   keyword_fallback |->
     [name |-> "Keyword Match", color |-> "bg-gray-100 text-gray-800 border-gray-200",
      icon |-> <<55357, 56612>>,
      description |-> "Basic keyword and pattern matching"],
   semantic_keyword_hybrid |->
     [name |-> "Hybrid Analysis",
      color |-> "bg-orange-100 text-orange-800 border-orange-200",
      icon |-> <<55357, 56580>>,
      description |-> "Combined semantic and keyword analysis"]]

\* ANALYSIS_METHODS[result.method_used] || ANALYSIS_METHODS['spacy_nlp']: an
\* own property, else an inherited one (a function, of which the card can
\* read the name, or Object.prototype under "__proto__", of which it can read
\* nothing), else the default
methodConfig(result) ==
  IF "method_used" \in DOMAIN result /\ result.method_used \in DOMAIN ANALYSIS_METHODS
  THEN ANALYSIS_METHODS[result.method_used]
  ELSE IF "method_used" \in DOMAIN result
          /\ result.method_used \in DOMAIN InheritedFunctions
  THEN [name |-> InheritedFunctions[result.method_used]]
  ELSE IF "method_used" \in DOMAIN result /\ result.method_used = "__proto__"
  THEN [k \in {} |-> ""]
  ELSE ANALYSIS_METHODS["spacy_nlp"]

getScoreColor(percentage) ==
  IF percentage >= 80 THEN "text-green-600 bg-green-50"
  ELSE IF percentage >= 60 THEN "text-yellow-600 bg-yellow-50"
  ELSE "text-red-600 bg-red-50"

\* getScoreColor(percentage).split(' ')[0]
getScoreTextColor(percentage) ==
  IF percentage >= 80 THEN "text-green-600"
  ELSE IF percentage >= 60 THEN "text-yellow-600"
  ELSE "text-red-600"

\* defined by the component and never called by it
getProgressColor(percentage) ==
  IF percentage >= 80 THEN "bg-green-500"
  ELSE IF percentage >= 60 THEN "bg-yellow-500"
  ELSE "bg-red-500"

\* what the card shows for a result: the badge (methodConfig?.name ||
\* 'Analysis' and methodConfig?.icon || the wrench, on methodConfig?.color ||
\* 'text-gray-600'), the classes of the score and of the percentage, and the
\* value of the progress bar
CategoryScoreCard(result) ==
  [badge |-> IF "name" \in DOMAIN methodConfig(result)
             THEN methodConfig(result).name ELSE "Analysis",
   badgeIcon |-> IF "icon" \in DOMAIN methodConfig(result)
                 THEN methodConfig(result).icon ELSE <<55357, 56615>>,
   badgeColor |-> IF "color" \in DOMAIN methodConfig(result)
                  THEN methodConfig(result).color ELSE "text-gray-600",
   scoreColor |-> getScoreTextColor(result.percentage),
   percentageColor |-> getScoreColor(result.percentage),
   progress |-> result.percentage]

\* method_used values a backend may send besides the known ones: the names
\* of the specification's enum and a method the dashboard does not know
OtherMethods ==
  {"nlp", "semantic", "qa", "hybrid", "regex_match", "constructor", "toString",
   "__proto__"}

\* category results: every known and unknown method_used, or none, with
\* every whole percentage
CardInputs ==
  {[fn |-> "CategoryScoreCard",
    result |-> [method_used |-> m, percentage |-> pc]] :
     m \in DOMAIN ANALYSIS_METHODS \cup OtherMethods, pc \in 0..MaxPercent}
  \cup {[fn |-> "CategoryScoreCard", result |-> [percentage |-> pc]] :
          pc \in 0..MaxPercent}

ApplyCard ==
  /\ args.fn = "CategoryScoreCard" /\ out = NoOutput
  /\ out' = [fn |-> "CategoryScoreCard", value |-> CategoryScoreCard(args.result)]
  /\ UNCHANGED <<args, Store>>

SpecCard == PureInit(CardInputs) /\ [][ApplyCard]_vars

-----------------------------------------------------------------------------
(* The React application: AppProvider's addDpr and setResult, and           *)
(* UploadPage.handleUpload, which calls uploadFile, adds the document to    *)
(* the context as "processing", waits five progress ticks, calls            *)
(* processDocument, puts the result into the context and waits a last tick. *)
(* A promise's resolution and the continuation of the awaiting handler run  *)
(* in the same turn of the event loop, so they are one step.                *)

\* addDpr: setDprs((prev) => [dpr, ...prev])
addDpr(prev, dpr) == <<dpr>> \o prev

\* setResult: setResults((prev) => ({ ...prev, [id]: result }))
setResult(prev, id, result) ==
  [k \in DOMAIN prev \cup {id} |-> IF k = id THEN result ELSE prev[k]]

\* no file selected: useState<File | null>(null)
NoFile == [name |-> <<>>, size |-> 0, none |-> TRUE]

\* faulty variant of canSubmit: the button stays enabled during a run
canSubmitWhileBusy(file, busy) == file # NoFile

\* canSubmit: !!file && !busy; the submit button is disabled without it
canSubmit(file, busy) == file # NoFile /\ ~busy

\* faulty variant of tickProgress: the last tick stops short of 100
tickProgressShort == <<25, 45, 65, 80, 92, 99>>

\* the toProgress argument of the six tick calls, by stepIndex
tickProgress == <<25, 45, 65, 80, 92, 100>>

\* tick(stepIndex, toProgress) up to its await: setCurrentStep, setProgress
tick(p, stepIndex) ==
  [p EXCEPT !.currentStep = stepIndex, !.progress = tickProgress[stepIndex]]

\* the runs of handleUpload under way, and one of them advanced or ended
Runs == 1..Len(page.runs)
RunAt(i, run) == [page.runs EXCEPT ![i] = run]
RunsWithout(i) == [j \in 1..(Len(page.runs) - 1) |->
                     IF j < i THEN page.runs[j] ELSE page.runs[j + 1]]

\* a click on "Upload & Analyze": handleUpload up to await api.uploadFile(...)
HandleUploadStart(file, language) ==
  /\ ~page.left
  /\ canSubmit(file, page.busy)
  /\ Len(dprs) + PendingUploads < MaxDprs
  /\ pending' = Suspend(UploadCall(file, language))
  /\ page' = [page EXCEPT !.busy = TRUE, !.currentStep = 0, !.progress = 5,
                          !.runs = Append(@, [pc |-> "uploadFile",
                                              call |-> UploadCall(file, language)])]
  /\ UNCHANGED <<dprs, resultsMap, returned, observed, args, out, appDprs, results,
                 readers>>

\* uploadFile returns; addDpr({ ...dpr, status: "processing" }); tick(1, 25) starts
HandleUploadAddDpr(i, newId) ==
  /\ page.runs[i].pc = "uploadFile"
  /\ UploadFileBody(page.runs[i].call, newId)
  /\ appDprs' = addDpr(appDprs,
                       [returned'.value.value.dpr EXCEPT !.status = "processing"])
  /\ page' = [tick(page, 1) EXCEPT
                !.runs = RunAt(i, [pc |-> "tick", step |-> 1, uploadId |-> newId,
                                   language |-> page.runs[i].call.language])]
  /\ UNCHANGED <<observed, results, readers>>

\* a tick before the fifth ends and the next one starts
HandleUploadTick(i) ==
  /\ page.runs[i].pc = "tick" /\ page.runs[i].step < 5
  /\ page' = [tick(page, page.runs[i].step + 1) EXCEPT
                !.runs = RunAt(i, [page.runs[i] EXCEPT !.step = @ + 1])]
  /\ UNCHANGED <<dprs, resultsMap, pending, returned, observed, args, out,
                 appDprs, results, readers>>

\* tick(5, 92) ends; handleUpload runs up to await api.processDocument(...)
HandleUploadProcess(i) ==
  /\ page.runs[i].pc = "tick" /\ page.runs[i].step = 5
  /\ pending' = Suspend(ProcessCall(page.runs[i].uploadId, page.runs[i].language))
  /\ page' = [page EXCEPT
                !.runs = RunAt(i, [pc |-> "processDocument",
                                   uploadId |-> page.runs[i].uploadId,
                                   language |-> page.runs[i].language])]
  /\ UNCHANGED <<dprs, resultsMap, returned, observed, args, out, appDprs, results,
                 readers>>

\* processDocument returns; setResult(uploadId, result); tick(6, 100) starts
HandleUploadSetResult(i) ==
  /\ page.runs[i].pc = "processDocument"
  /\ ProcessDocumentBody(ProcessCall(page.runs[i].uploadId, page.runs[i].language))
  /\ results' = setResult(results, page.runs[i].uploadId, returned'.value.value)
  /\ page' = [tick(page, 6) EXCEPT
                !.runs = RunAt(i, [pc |-> "ready",
                                   uploadId |-> page.runs[i].uploadId])]
  /\ UNCHANGED <<observed, appDprs, readers>>

\* tick(6, 100) ends; setBusy(false); router.push("/dashboard/results?latest=1")
HandleUploadDone(i) ==
  /\ page.runs[i].pc = "ready"
  /\ page' = [page EXCEPT !.busy = FALSE, !.left = TRUE, !.runs = RunsWithout(i)]
  /\ UNCHANGED <<dprs, resultsMap, pending, returned, observed, args, out,
                 appDprs, results, readers>>

\* the upload page is opened again: a new instance with fresh state
UploadPageMount ==
  /\ page.left /\ page.runs = <<>>
  /\ page' = Idle
  /\ UNCHANGED <<dprs, resultsMap, pending, returned, observed, args, out,
                 appDprs, results, readers>>

\* the continuations of a handleUpload run at its timers and at uploadFile
HandleUploadTimers ==
  \/ \E i \in Runs, id \in StoreIds : HandleUploadAddDpr(i, id)
  \/ \E i \in Runs : HandleUploadTick(i)
  \/ \E i \in Runs : HandleUploadProcess(i)
  \/ \E i \in Runs : HandleUploadDone(i)

\* the continuation of a handleUpload run at await api.processDocument(...)
HandleUploadResult == \E i \in Runs : HandleUploadSetResult(i)

\* a run is suspended at await api.processDocument(...): HandleUploadResult
\* is enabled exactly then, the call being among the suspended ones
AwaitsProcessDocument == \E i \in Runs : page.runs[i].pc = "processDocument"

NextApp ==
  \/ \E f \in Files \cup {NoFile}, l \in LanguageOption : HandleUploadStart(f, l)
  \/ HandleUploadTimers
  \/ HandleUploadResult
  \/ UploadPageMount

SpecApp == Init /\ [][NextApp]_vars

\* the event loop runs every timer that has expired and the continuation of
\* every promise that has settled: weak fairness of the continuations, that
\* of HandleUploadResult written out with AwaitsProcessDocument for ENABLED
SpecAppLive ==
  /\ SpecApp
  /\ WF_vars(HandleUploadTimers)
  /\ ([]<>~AwaitsProcessDocument \/ []<><<HandleUploadResult>>_vars)

-----------------------------------------------------------------------------
(* The two result stores under calls made in any order: uploadFile and      *)
(* processDocument on the api module, setResult on the context.             *)

\* setResult(id, result) is called with the result of an analysis of id
SetResultCall(id, language) ==
  /\ results' = setResult(results, id, ProcessResult(id, language))
  /\ UNCHANGED <<dprs, resultsMap, pending, returned, observed, args, out,
                 appDprs, page, readers>>

NextStored ==
  \/ \E f \in Files : UploadFileCall(f, EN)
  \/ \E c \in PendingOf("uploadFile"), id \in StoreIds : UploadFileResume(c, id)
  \/ \E u \in StoreIds, l \in StoreLanguages : ProcessDocumentCall(u, l)
  \/ \E c \in PendingOf("processDocument") : ProcessDocumentResume(c)
  \/ \E id \in StoreIds, l \in StoreLanguages : SetResultCall(id, l)

SpecStored == Init /\ [][NextStored]_vars

-----------------------------------------------------------------------------
(* The backend version of the module: uploadFile, listDPRs and getResults   *)
(* ask the backend first and fall back to the module-level store when the   *)
(* request fails; processDocument is the one of the mock module. A call     *)
(* runs from one await to the next without interruption, and up to          *)
(* MaxConcurrent calls are suspended at once.                               *)

BackendUploadCall(file, language, at) ==
  [op |-> "uploadFile", file |-> file, language |-> language, at |-> at]

\* the suspended call moves on to its next await
Move(call, at) == Append(Resume(call), [call EXCEPT !.at = at])

\* how the fetch of POST /api/upload settles
UploadStatuses == {"ok", "notOk", "rejected"}

\* the documents data.dpr of an OK upload response: the backend chooses the
\* id and the status
BackendDprs(call) ==
  {[id |-> i, filename |-> call.file.name, uploadedAt |-> Now,
    language |-> call.language, status |-> s, sizeBytes |-> call.file.size] :
     i \in StoreIds, s \in {"uploaded", "completed"}}

\* what await response.json() of an OK upload response comes to
UploadBodies(call) ==
  {Json([uploadId |-> d.id, dpr |-> d]) : d \in BackendDprs(call)}
  \cup {NotJson, NullBody}

\* uploadFile is called: it suspends at await fetch(POST /api/upload)
UploadFileFetch(file, language) ==
  /\ Len(dprs) + PendingUploads < MaxDprs
  /\ InFlight < MaxConcurrent
  /\ pending' = Suspend(BackendUploadCall(file, language, "fetch"))
  /\ UNCHANGED <<dprs, resultsMap, returned, observed, args, out, app>>

\* the fetch settles: an OK response is read (await response.json()), the
\* error of another response is read (await response.json() of errorData), a
\* rejected fetch is caught (await sleep(400))
UploadFileFetched(call, status) ==
  /\ IsPending(call) /\ call.op = "uploadFile" /\ call.at = "fetch"
  /\ pending' = Move(call, CASE status = "ok" -> "json"
                             [] status = "notOk" -> "errorJson"
                             [] OTHER -> "sleep")
  /\ UNCHANGED <<dprs, resultsMap, returned, observed, args, out, app>>

\* the body of an OK response is read: dprs = [data.dpr, ...dprs] with the
\* document the backend sent; a body that is not JSON or is null is caught
UploadFileRead(call, body) ==
  /\ IsPending(call) /\ call.op = "uploadFile" /\ call.at = "json"
  /\ IF body.kind = "data"
     THEN /\ dprs' = <<body.data.dpr>> \o dprs
          /\ returned' = [op |-> "uploadFile", call |-> call,
                          value |-> Value([uploadId |-> body.data.uploadId,
                                           dpr |-> body.data.dpr])]
          /\ pending' = Resume(call)
     ELSE /\ pending' = Move(call, "sleep")
          /\ UNCHANGED <<dprs, returned>>
  /\ UNCHANGED <<resultsMap, observed, args, out, app>>

\* the body of a non-OK response is read, or is not JSON: either way an
\* error is thrown and caught
UploadFileErrorRead(call) ==
  /\ IsPending(call) /\ call.op = "uploadFile" /\ call.at = "errorJson"
  /\ pending' = Move(call, "sleep")
  /\ UNCHANGED <<dprs, resultsMap, returned, observed, args, out, app>>

\* the catch branch resumes: the upload of the mock module
UploadFileCaught(call, newId) ==
  /\ call.at = "sleep"
  /\ UploadFileBody(call, newId)
  /\ UNCHANGED <<observed, app>>

\* getResults is called: it suspends at await fetch(/api/results/{dprId})
GetResultsFetch(dprId) ==
  /\ InFlight < MaxConcurrent
  /\ pending' = Suspend(ResultsCall(dprId, "fetch"))
  /\ UNCHANGED <<dprs, resultsMap, returned, observed, args, out, app>>

\* getResults suspended in its catch branch at await sleep(150), with what
\* took it there
FallbackCall(dprId, cause) ==
  [op |-> "getResults", dprId |-> dprId, at |-> "fallback", cause |-> cause]

\* the fetch settles: with an OK status the body is read (await
\* response.json()), a 404 gives null, any other status and a rejected fetch
\* are caught (await sleep(150)); what is returned carries the outcome it
\* answers. When the call returns, its caller runs on to its own next await:
\* next lists the calls it suspends at there
GetResultsAfterFetch(call, status, next) ==
  /\ IsPending(call) /\ call.op = "getResults" /\ call.at = "fetch"
  /\ \/ /\ status = "ok"
        /\ returned' = returned
        /\ pending' = Move(call, "json")
     \/ /\ status = "notFound"
        /\ returned' = [op |-> "getResults", call |-> call, value |-> Null,
                        response |-> status]
        /\ pending' = Resume(call) \o next
     \/ /\ status \in {"serverError", "rejected"}
        /\ returned' = returned
        /\ pending' = Append(Resume(call), FallbackCall(call.dprId, status))
  /\ UNCHANGED <<dprs, resultsMap, observed, args, out>>

GetResultsFetched(call, status) ==
  /\ GetResultsAfterFetch(call, status, <<>>)
  /\ UNCHANGED app

\* the body has been read: the JSON object is transformed and returned; a
\* body on which json() or the transformation throws is caught
GetResultsAfterJson(call, body, next) ==
  /\ IsPending(call) /\ call.op = "getResults" /\ call.at = "json"
  /\ IF TransformThrows(body)
     THEN /\ returned' = returned
          /\ pending' = Append(Resume(call),
                               FallbackCall(call.dprId, ThrowOf(body)))
     ELSE /\ returned' = [op |-> "getResults",
                          call |-> ResultsCall(call.dprId, "fetch"),
                          value |-> Value(TransformBackend(body.data)),
                          response |-> "ok"]
          /\ pending' = Resume(call) \o next
  /\ UNCHANGED <<dprs, resultsMap, observed, args, out>>

GetResultsRead(call, body) ==
  /\ GetResultsAfterJson(call, body, <<>>)
  /\ UNCHANGED app

\* the catch branch resumes: resultsMap[dprId] || null
GetResultsAfterSleep(call, next) ==
  /\ TimerDue(call) /\ call.op = "getResults" /\ call.at = "fallback"
  /\ returned' = [op |-> "getResults", call |-> ResultsCall(call.dprId, "fetch"),
                  value |-> OrNull(Get(resultsMap, call.dprId)),
                  response |-> call.cause]
  /\ pending' = Resume(call) \o next
  /\ UNCHANGED <<dprs, resultsMap, observed, args, out>>

GetResultsCaught(call) ==
  /\ GetResultsAfterSleep(call, <<>>)
  /\ UNCHANGED app

\* the calls of the backend version, overlapping
NextBackend ==
  \/ \E f \in Files : UploadFileFetch(f, EN)
  \/ \E c \in PendingOf("uploadFile"), s \in UploadStatuses : UploadFileFetched(c, s)
  \/ \E c \in PendingOf("uploadFile") : \E b \in UploadBodies(c) : UploadFileRead(c, b)
  \/ \E c \in PendingOf("uploadFile") : UploadFileErrorRead(c)
  \/ \E c \in PendingOf("uploadFile"), id \in StoreIds : UploadFileCaught(c, id)
  \/ \E u \in StoreIds : InFlight < MaxConcurrent /\ ProcessDocumentBegin(u, EN)
  \/ \E c \in PendingOf("processDocument") : ProcessDocumentResume(c)
  \/ \E d \in PageDocIds \cup {PropertyNames.constructor} : GetResultsFetch(d)
  \/ \E c \in PendingOf("getResults"), s \in ResultStatuses : GetResultsFetched(c, s)
  \/ \E c \in PendingOf("getResults") :
       \E b \in StoreBodies(c.dprId) : GetResultsRead(c, b)
  \/ \E c \in PendingOf("getResults") : GetResultsCaught(c)

SpecBackend == Init /\ [][NextBackend]_vars

\* listDPRs of the backend version, suspended at an await
BackendListCall(opts, at) == [op |-> "listDPRs", opts |-> opts, at |-> at]

\* how the fetch of /api/files settles
ListStatuses == {"ok", "notOk", "rejected"}

\* where listDPRs stands once its fetch has settled: at await
\* response.json() or, in its catch branch, at await sleep(150)
ListAfterFetch(status) == IF status = "ok" THEN "json" ELSE "sleep"

\* file.a || file.b: the property the value is taken from
OrField(file, a, b, falsy) ==
  IF a \in DOMAIN file /\ file[a] # falsy THEN a ELSE b

\* the DPRFile listDPRs makes of one entry of data.files
MapServerFile(file) ==
  LET idOf == OrField(file, "uploadId", "id", <<>>)
      nameOf == OrField(file, "originalFilename", "filename", <<>>)
      sizeOf == OrField(file, "fileSize", "sizeBytes", 0)
      copied == DOMAIN file \cap
                  {"uploadId", "originalFilename", "uploadedAt", "fileSize",
                   "isArchived", "hasResults", "analysisStatus", "processedAt",
                   "hasRiskAnalysis", "hasScoreAnalysis", "scorePercentage",
                   "totalScore"}
      keys == copied \cup {"language", "status"}
                \cup (IF idOf \in DOMAIN file THEN {"id"} ELSE {})
                \cup (IF nameOf \in DOMAIN file THEN {"filename"} ELSE {})
                \cup (IF sizeOf \in DOMAIN file THEN {"sizeBytes"} ELSE {})
  IN  [k \in keys |->
         CASE k = "id" -> file[idOf]
           [] k = "filename" -> file[nameOf]
           [] k = "sizeBytes" -> file[sizeOf]
           [] k = "language" ->
                IF "language" \in DOMAIN file /\ file.language # <<>>
                THEN file.language ELSE EN
           [] k = "status" ->
                IF "analysisStatus" \in DOMAIN file /\ file.analysisStatus = "completed"
                THEN "completed" ELSE "uploaded"
           [] OTHER -> file[k]]

\* data.files.map(...)
MapServerFiles(files) == [i \in 1..Len(files) |-> MapServerFile(files[i])]

\* listDPRs throws inside its try once the body has been read: json()
\* rejects, data has no files, or the filter meets a file without a name
ListThrows(body, opts) ==
  \/ body.kind # "data"
  \/ "files" \notin DOMAIN body.data
  \/ /\ QueryOf(opts) # <<>>
     /\ \E i \in 1..Len(body.data.files) :
          "filename" \notin DOMAIN MapServerFile(body.data.files[i])

\* what listDPRs returns from its try: the mapped files, filtered by q
ListRead(body, opts) == listDPRs(MapServerFiles(body.data.files), opts)

\* the files the backend lists: "Ab", uploaded as 4fzyo82m, analysed and
\* archived, and "a", known under the id "i" and not analysed
ServerFiles ==
  <<[uploadId |-> <<52, 102, 122, 121, 111, 56, 50, 109>>,
     filename |-> <<120, 95, 65, 98>>, originalFilename |-> <<65, 98>>,
     uploadedAt |-> Now, language |-> HI, analysisStatus |-> "completed",
     fileSize |-> 2048, isArchived |-> TRUE, hasResults |-> TRUE,
     processedAt |-> Now, hasRiskAnalysis |-> FALSE, hasScoreAnalysis |-> TRUE,
     scorePercentage |-> 85, totalScore |-> 140],
    [id |-> <<105>>, filename |-> <<97>>, uploadedAt |-> Now, language |-> <<>>,
     analysisStatus |-> "pending", sizeBytes |-> 1024]>>

\* what await response.json() of an OK /api/files response comes to
ListBodies == {Json([files |-> ServerFiles]), Json([success |-> FALSE]), NotJson}
-----------------------------------------------------------------------------
(* ResultsPage: the effect that fetches the result of the page's id when    *)
(* the context holds none, through getResults and listDPRs of the backend   *)
(* version. React runs the effect after the first render and after every    *)
(* render in which one of its dependencies [id, cachedResult, loading,      *)
(* listDprs] differs from the render before; a state update is rendered     *)
(* before any response arrives.                                             *)

\* params.get("id") ?? (latest ? dprs[0]?.id : undefined): the id of the
\* render, undefined without ?id= unless ?latest=1 finds a document
ResultsId ==
  IF resultsPage.param # Null THEN resultsPage.param
  ELSE IF resultsPage.latest /\ appDprs # <<>> /\ "id" \in DOMAIN appDprs[1]
  THEN Value(appDprs[1].id)
  ELSE Undefined

\* !id: the id is undefined or the empty text
NoId == ResultsId = Undefined \/ ResultsId.value = <<>>

\* cachedResult = id ? results[id] : undefined
CachedResult == IF NoId THEN Undefined ELSE Get(results, ResultsId.value)

\* the dependencies of the effect that can change while the page is open
ResultsDeps == <<ResultsId, CachedResult, resultsPage.loading>>

\* a render has changed the dependencies since the effect last ran
ResultsEffectDue == resultsPage.open /\ resultsPage.ran # ResultsDeps

\* the URLs the page is shown for: ?id=4fzyo82m, ?id=, ?id=constructor and
\* ?latest=1
ResultsUrls ==
  {[param |-> Value(id), latest |-> FALSE] :
     id \in StoreIds \cup {PropertyNames.constructor}}
  \cup {[param |-> Null, latest |-> TRUE]}

\* the page is mounted for a URL: the useState initial values. fetching is
\* the id in the closure of the fetchResultsData under way, settled the id
\* whose fetch has completed while the page has stayed on it
ResultsPageOpen(url) ==
  /\ ~resultsPage.open
  /\ resultsPage' = [open |-> TRUE, param |-> url.param, latest |-> url.latest,
                     fetchedResult |-> Null, fetchedDpr |-> Null,
                     loading |-> FALSE, error |-> Null, ran |-> <<>>,
                     at |-> "idle", fetching |-> <<>>, fetches |-> 0,
                     settled |-> Null, repeated |-> FALSE, moves |-> 0]
  /\ UNCHANGED <<dprs, resultsMap, pending, returned, observed, args, out,
                 appDprs, results, page, archivePage>>

\* the URL changes on the same route: the component stays mounted and keeps
\* its state
ResultsPageNavigate(url) ==
  /\ resultsPage.open /\ ~ResultsEffectDue
  /\ resultsPage.moves < MaxUrlChanges
  /\ <<url.param, url.latest>> # <<resultsPage.param, resultsPage.latest>>
  /\ resultsPage' = [resultsPage EXCEPT !.param = url.param,
                       !.latest = url.latest, !.moves = @ + 1]
  /\ UNCHANGED <<dprs, resultsMap, pending, returned, observed, args, out,
                 appDprs, results, page, archivePage>>

\* addDpr(dpr) is called while the page may be open
ResultsAddDpr(id, file) ==
  /\ ~ResultsEffectDue
  /\ Len(appDprs) < MaxAdded
  /\ appDprs' = addDpr(appDprs, UploadedDpr(id, file, EN))
  /\ UNCHANGED <<dprs, resultsMap, pending, returned, observed, args, out,
                 results, page, readers>>

\* setResult(id, result) is called with the result of an analysis of id
\* while the page may be open. For a page shown for id, results[id] is now
\* another object than the one the last run of the effect saw, whatever it
\* holds: the dependency cachedResult of that run is marked as replaced
ResultsSetResult(id, language) ==
  /\ ~ResultsEffectDue
  /\ results' = setResult(results, id, ProcessResult(id, language))
  /\ resultsPage' = IF /\ resultsPage.open /\ resultsPage.ran # <<>>
                       /\ ~NoId /\ ResultsId.value = id
                    THEN [resultsPage EXCEPT !.ran[2] = [kind |-> "replaced"]]
                    ELSE resultsPage
  /\ UNCHANGED <<dprs, resultsMap, pending, returned, observed, args, out,
                 appDprs, page, archivePage>>

\* the effect runs: if (!id || cachedResult || loading) return; else
\* fetchResultsData() up to await getResults(id), which runs up to its fetch
ResultsEffect ==
  LET settled == IF resultsPage.ran # <<>> /\ resultsPage.ran[1] # ResultsId
                 THEN Null ELSE resultsPage.settled
  IN  /\ ResultsEffectDue
      /\ IF NoId \/ Truthy(CachedResult) \/ resultsPage.loading
         THEN /\ resultsPage' = [resultsPage EXCEPT !.ran = ResultsDeps,
                                   !.settled = settled]
              /\ pending' = pending
         ELSE /\ resultsPage.fetches < MaxFetches
              /\ resultsPage' = [resultsPage EXCEPT !.ran = ResultsDeps,
                                   !.loading = TRUE, !.error = Null,
                                   !.at = "getResults",
                                   !.fetching = ResultsId.value,
                                   !.fetches = @ + 1, !.settled = settled,
                                   !.repeated = @ \/ settled = ResultsId]
              /\ pending' = Suspend(ResultsCall(ResultsId.value, "fetch"))
      /\ UNCHANGED <<dprs, resultsMap, returned, observed, args, out,
                     appDprs, results, page, archivePage>>

\* the options of the page's listDprs call
ResultsListOpts == [includeArchived |-> TRUE]

\* getResults has returned: setFetchedResult(resultData), and
\* fetchResultsData runs up to await listDprs({ includeArchived: true }),
\* which runs up to its fetch
ResultsPageGot ==
  [resultsPage EXCEPT !.fetchedResult = returned'.value, !.at = "listDprs"]
ResultsPageLists == <<BackendListCall(ResultsListOpts, "fetch")>>

\* the fetch of getResults settles
ResultsPageFetched(status) ==
  /\ resultsPage.open /\ resultsPage.at = "getResults" /\ ~ResultsEffectDue
  /\ GetResultsAfterFetch(ResultsCall(resultsPage.fetching, "fetch"), status,
                          ResultsPageLists)
  /\ resultsPage' = IF status = "notFound" THEN ResultsPageGot ELSE resultsPage
  /\ UNCHANGED <<appDprs, results, page, archivePage>>

\* the body of the response to getResults has been read
ResultsPageRead(body) ==
  /\ resultsPage.open /\ resultsPage.at = "getResults" /\ ~ResultsEffectDue
  /\ GetResultsAfterJson(ResultsCall(resultsPage.fetching, "json"), body,
                         ResultsPageLists)
  /\ resultsPage' = IF TransformThrows(body) THEN resultsPage ELSE ResultsPageGot
  /\ UNCHANGED <<appDprs, results, page, archivePage>>

\* getResults returns from its catch branch
ResultsPageCaught(cause) ==
  /\ resultsPage.open /\ resultsPage.at = "getResults" /\ ~ResultsEffectDue
  /\ GetResultsAfterSleep(FallbackCall(resultsPage.fetching, cause),
                          ResultsPageLists)
  /\ resultsPage' = ResultsPageGot
  /\ UNCHANGED <<appDprs, results, page, archivePage>>

\* allDprs.find(d => d.uploadId === id || d.id === id)
Matches(d, id) ==
  \/ "uploadId" \in DOMAIN d /\ d.uploadId = id
  \/ "id" \in DOMAIN d /\ d.id = id

\* listDprs has returned allDprs: setFetchedDpr(matchingDpr || null); finally
\* setLoading(false)
ResultsPageGotList(allDprs) ==
  LET M == {i \in 1..Len(allDprs) : Matches(allDprs[i], resultsPage.fetching)}
  IN  [resultsPage EXCEPT
         !.fetchedDpr = IF M = {} THEN Null
                        ELSE Value(allDprs[CHOOSE i \in M : \A j \in M : i <= j]),
         !.loading = FALSE, !.at = "idle",
         !.settled = Value(resultsPage.fetching)]

\* the fetch of listDPRs settles
ResultsPageListFetched(status) ==
  LET call == BackendListCall(ResultsListOpts, "fetch")
  IN  /\ resultsPage.open /\ resultsPage.at = "listDprs" /\ ~ResultsEffectDue
      /\ IsPending(call)
      /\ pending' = Move(call, ListAfterFetch(status))
      /\ UNCHANGED <<dprs, resultsMap, returned, observed, args, out,
                     appDprs, results, page, resultsPage, archivePage>>

\* the body of the response to listDPRs has been read
ResultsPageListRead(body) ==
  LET call == BackendListCall(ResultsListOpts, "json")
  IN  /\ resultsPage.open /\ resultsPage.at = "listDprs" /\ ~ResultsEffectDue
      /\ IsPending(call)
      /\ IF ListThrows(body, ResultsListOpts)
         THEN /\ pending' = Move(call, "sleep")
              /\ resultsPage' = resultsPage
         ELSE /\ pending' = Resume(call)
              /\ resultsPage' = ResultsPageGotList(ListRead(body, ResultsListOpts))
      /\ UNCHANGED <<dprs, resultsMap, returned, observed, args, out,
                     appDprs, results, page, archivePage>>

\* listDPRs returns the list of the store from its catch branch
ResultsPageListCaught ==
  LET call == BackendListCall(ResultsListOpts, "sleep")
  IN  /\ resultsPage.open /\ resultsPage.at = "listDprs" /\ ~ResultsEffectDue
      /\ TimerDue(call)
      /\ pending' = Resume(call)
      /\ resultsPage' = ResultsPageGotList(listDPRs(dprs, ResultsListOpts))
      /\ UNCHANGED <<dprs, resultsMap, returned, observed, args, out,
                     appDprs, results, page, archivePage>>

\* the store when the page is opened: empty, holding one uploaded document,
\* or holding it analysed with its result
InitResults ==
  /\ \/ dprs = <<>> /\ resultsMap = EmptyMap
     \/ \E id \in PageDocIds, f \in Files :
          \/ /\ dprs = <<UploadedDpr(id, f, EN)>>
             /\ resultsMap = EmptyMap
          \/ /\ dprs = MarkCompleted(<<UploadedDpr(id, f, EN)>>, id)
             /\ resultsMap = PutResult(EmptyMap, id, ProcessResult(id, EN))
  /\ pending = <<>>
  /\ returned = NoReturn
  /\ observed = EmptyMap
  /\ args = NoInput
  /\ out = NoOutput
  /\ AppInit

\* the results page of a session in which documents and results are put
\* into the context
NextResults ==
  \/ \E url \in ResultsUrls : ResultsPageOpen(url)
  \/ \E url \in ResultsUrls : ResultsPageNavigate(url)
  \/ \E id \in PageDocIds, f \in Files : ResultsAddDpr(id, f)
  \/ ResultsEffect
  \/ \E s \in ResultStatuses : ResultsPageFetched(s)
  \/ /\ resultsPage.open
     /\ \E b \in StoreBodies(resultsPage.fetching) : ResultsPageRead(b)
  \/ \E k \in Failures : ResultsPageCaught(k)
  \/ \E s \in ListStatuses : ResultsPageListFetched(s)
  \/ \E b \in ListBodies : ResultsPageListRead(b)
  \/ ResultsPageListCaught
  \/ \E id \in StoreIds : ResultsSetResult(id, EN)

SpecResults == InitResults /\ [][NextResults]_vars
-----------------------------------------------------------------------------
(* ArchivePage: two effects call listDprs and put the answer into items     *)
(* unless their cleanup has run: one on mount, without options, whose       *)
(* cleanup runs when the page unmounts, and one on mount and on every       *)
(* change of q, with { q }, whose cleanup runs on the next change of q.     *)
(* Each call is one of listDPRs of the backend version: it awaits its       *)
(* fetch, then the body, and in its catch branch a timer of 150 ms. The    *)
(* fetches and bodies arrive in any order, the timers expire in the order   *)
(* they were set. requests lists the calls in the order they reached the    *)
(* await they are suspended at.                                             *)

\* two files named "a" and "A\u03a3", whose lower case ends in a final sigma
ArchiveFiles == <<[name |-> <<97>>, size |-> 1024], [name |-> <<65, 931>>, size |-> 2048]>>

\* the search texts typed into the page: "", "a", "A", a capital sigma, an
\* ideographic space before a final sigma, "c"
ArchiveQueries == {<<>>, <<97>>, <<65>>, <<931>>, <<12288, 962>>, <<99>>}

\* the list of the store after the two files were uploaded
ArchiveDprs ==
  <<UploadedDpr(<<52, 102, 122, 121, 111, 56, 50, 109>>, ArchiveFiles[2], EN),
    UploadedDpr(<<105>>, ArchiveFiles[1], EN)>>

\* a listDprs call of an effect, suspended at its fetch, with the mounted
\* flag of its closure
ListRequest(effect, opts) ==
  [effect |-> effect, opts |-> opts, mounted |-> TRUE, at |-> "fetch"]

\* the cleanup of the query effect: mounted = false in the closure of its last run
CleanupQuery(requests) ==
  [i \in 1..Len(requests) |->
     IF requests[i].effect = "query" THEN [requests[i] EXCEPT !.mounted = FALSE]
     ELSE requests[i]]

Without(seq, i) == [j \in 1..(Len(seq) - 1) |-> IF j < i THEN seq[j] ELSE seq[j + 1]]

\* the page mounts: both effects run
ArchivePageMount ==
  /\ ~archivePage.open
  /\ archivePage' = [open |-> TRUE, q |-> <<>>, items |-> <<>>,
                     requests |-> <<ListRequest("mount", NoOpts),
                                    ListRequest("query", [q |-> <<>>])>>,
                     changes |-> 0]
  /\ UNCHANGED <<dprs, resultsMap, pending, returned, observed, args, out,
                 appDprs, results, page, resultsPage>>

\* setQ(e.target.value) with another text: the query effect's cleanup runs,
\* then the effect with the new q
ArchiveSetQ(q) ==
  /\ archivePage.open /\ q # archivePage.q
  /\ archivePage.changes < MaxQueries
  /\ archivePage' = [archivePage EXCEPT
                       !.q = q, !.changes = @ + 1,
                       !.requests = Append(CleanupQuery(@),
                                           ListRequest("query", [q |-> q]))]
  /\ UNCHANGED <<dprs, resultsMap, pending, returned, observed, args, out,
                 appDprs, results, page, resultsPage>>

\* the request moves on to its next await
ArchiveAt(i, at) ==
  [archivePage EXCEPT
     !.requests = Append(Without(@, i), [@[i] EXCEPT !.at = at])]

\* a listDprs call returns data: if (mounted) setItems(data)
ArchiveListed(i, data) ==
  [archivePage EXCEPT
     !.items = IF archivePage.requests[i].mounted THEN data ELSE @,
     !.requests = Without(@, i)]

\* the fetch of a call settles
ArchiveListFetched(i, status) ==
  /\ archivePage.open /\ i \in 1..Len(archivePage.requests)
  /\ archivePage.requests[i].at = "fetch"
  /\ archivePage' = ArchiveAt(i, ListAfterFetch(status))
  /\ UNCHANGED <<dprs, resultsMap, pending, returned, observed, args, out,
                 appDprs, results, page, resultsPage>>

\* the body of a call's response has been read
ArchiveListRead(i, body) ==
  /\ archivePage.open /\ i \in 1..Len(archivePage.requests)
  /\ archivePage.requests[i].at = "json"
  /\ archivePage' = IF ListThrows(body, archivePage.requests[i].opts)
                    THEN ArchiveAt(i, "sleep")
                    ELSE ArchiveListed(i, ListRead(body, archivePage.requests[i].opts))
  /\ UNCHANGED <<dprs, resultsMap, pending, returned, observed, args, out,
                 appDprs, results, page, resultsPage>>

\* a call returns the list of the store from its catch branch
ArchiveListCaught(i) ==
  /\ archivePage.open /\ i \in 1..Len(archivePage.requests)
  /\ archivePage.requests[i].at = "sleep"
  /\ \A j \in 1..(i - 1) : archivePage.requests[j].at # "sleep"
  /\ archivePage' = ArchiveListed(i, listDPRs(dprs, archivePage.requests[i].opts))
  /\ UNCHANGED <<dprs, resultsMap, pending, returned, observed, args, out,
                 appDprs, results, page, resultsPage>>

InitArchive ==
  /\ dprs = ArchiveDprs
  /\ resultsMap = EmptyMap
  /\ pending = <<>>
  /\ returned = NoReturn
  /\ observed = EmptyMap
  /\ args = NoInput
  /\ out = NoOutput
  /\ AppInit

NextArchive ==
  \/ ArchivePageMount
  \/ \E q \in ArchiveQueries : ArchiveSetQ(q)
  \/ \E i \in 1..MaxQueries + 2, s \in ListStatuses : ArchiveListFetched(i, s)
  \/ \E i \in 1..MaxQueries + 2, b \in ListBodies : ArchiveListRead(i, b)
  \/ \E i \in 1..MaxQueries + 2 : ArchiveListCaught(i)

SpecArchive == InitArchive /\ [][NextArchive]_vars
-----------------------------------------------------------------------------
(* Properties *)

\* the maximum total of the basic scheme
MaxTotal == 100

\* x clamped into [lo, hi], stated without the helpers above
Clamped(x, lo, hi) == IF x < lo THEN lo ELSE IF x > hi THEN hi ELSE x

\* C1: every sub-score of a processDocument result lies between 0 and its
\* ceiling (30, 25, 25, 20) and the total lies between 0 and 100.
C1_ScoresBounded ==
  Analyzed =>
    /\ Res.scores.completeness \in 0..30
    /\ Res.scores.compliance \in 0..25
    /\ Res.scores.technicalQuality \in 0..25
    /\ Res.scores.impactSustainability \in 0..20
    /\ Res.scores.total \in 0..MaxTotal

\* a result in which every sub-score and the total sit on their ceilings
C1_Witness ==
  /\ Analyzed
  /\ Res.scores.completeness = 30 /\ Res.scores.compliance = 25
  /\ Res.scores.technicalQuality = 25 /\ Res.scores.impactSustainability = 20
  /\ Res.scores.total = MaxTotal

\* the six rule predicates of buildRecommendations on the input in args
RuleHolds(i) ==
  CASE i = 1 -> args.flags.budgetMismatch
    [] i = 2 -> args.flags.timelineIssues
    [] i = 3 -> args.flags.missingData
    [] i = 4 -> args.risk.delayRisk > 500
    [] i = 5 -> args.scores.compliance < 20
    [] i = 6 -> args.scores.technicalQuality < 18

RuleMessages ==
  <<RecBudget, RecTimeline, RecMissingData, RecDelay, RecCompliance, RecTechnical>>

RecsApplied == out.fn = "buildRecommendations"

\* C3: buildRecommendations never returns an empty list; when no rule
\* predicate holds it returns exactly the fallback message, and the fallback
\* message never appears beside another message.
C3_RecommendationsNeverEmpty ==
  RecsApplied =>
    /\ Len(out.value) >= 1
    /\ (\A i \in 1..6 : ~RuleHolds(i)) => out.value = <<RecStrong>>
    /\ (\E j \in 1..Len(out.value) : out.value[j] = RecStrong)
         => out.value = <<RecStrong>>

\* no rule fires, on the boundary values of the three thresholds
C3_Witness ==
  /\ RecsApplied
  /\ \A i \in 1..6 : ~RuleHolds(i)
  /\ args.risk.delayRisk = 500 /\ args.scores.compliance = 20
  /\ args.scores.technicalQuality = 18
  /\ out.value = <<RecStrong>>

\* C4: in every result handed back by processDocument or getResults,
\* eligibility.outOfRange is present and is the negation of sizeCheckOk.
C4_OutOfRangeIsNotSizeCheckOk ==
  (returned.op \in {"processDocument", "getResults"} /\ returned.value.kind = "value")
    => /\ "outOfRange" \in DOMAIN returned.value.value.eligibility
       /\ returned.value.value.eligibility.outOfRange
            = ~returned.value.value.eligibility.sizeCheckOk

\* C5: the grade of a processDocument result is Excellent iff the total is
\* at least 90% of the maximum total, Good iff at least 75% and below 90%,
\* Fair iff at least 60% and below 75%, Poor iff below 60%.
C5_GradeByPercentage ==
  Analyzed =>
    LET pct == (100 * Res.scores.total) \div MaxTotal
        g == Res.scores.grade
    IN  /\ g = "Excellent" <=> pct >= 90
        /\ g = "Good" <=> (75 <= pct /\ pct < 90)
        /\ g = "Fair" <=> (60 <= pct /\ pct < 75)
        /\ g = "Poor" <=> pct < 60

\* a total of exactly 90 graded Excellent
C5_Witness == Analyzed /\ Res.scores.total = 90 /\ Res.scores.grade = "Excellent"

GradeRank(g) ==
  CASE g = "Poor" -> 0 [] g = "Fair" -> 1 [] g = "Good" -> 2 [] g = "Excellent" -> 3

\* C6: for totals t1 > t2 the grade of t1 is never a worse tier than the
\* grade of t2, for the grade expression of processDocument and for
\* getGradeFromScore.
C6_GradeMonotone ==
  (out.fn = "grade" /\ args.t1 > args.t2) =>
    /\ GradeRank(out.inline[1]) >= GradeRank(out.inline[2])
    /\ GradeRank(out.helper[1]) >= GradeRank(out.helper[2])

\* two totals one point apart on the two sides of the Excellent threshold
C6_Witness ==
  /\ out.fn = "grade" /\ args.t1 = 90 /\ args.t2 = 89
  /\ out.inline = <<"Excellent", "Good">> /\ out.helper = <<"Excellent", "Good">>

\* r = round(num / den) with halves rounded up, stated by its two inequalities
IsRounded(r, num, den) == 2 * r * den <= 2 * num + den /\ 2 * num + den < 2 * (r + 1) * den

Checks(seq) == Cardinality({i \in 1..Len(seq) : seq[i]})

\* C7: for a non-empty list, score(flags, outOf) is round(outOf * true / all):
\* outOf when all are true, 0 when none is; processDocument scores
\* completeness from 3 checks out of 30, compliance from 4 out of 25 and
\* technicalQuality from 2 out of 25.
C7_ScoreIsRoundedRatio ==
  /\ (out.fn = "score" /\ Len(args.flags) > 0) =>
       /\ IsRounded(out.value, args.outOf * Checks(args.flags), Len(args.flags))
       /\ (\A i \in 1..Len(args.flags) : args.flags[i]) => out.value = args.outOf
       /\ (\A i \in 1..Len(args.flags) : ~args.flags[i]) => out.value = 0
  /\ Analyzed =>
       LET v == Res.validation
       IN  /\ IsRounded(Res.scores.completeness,
                        30 * Checks(<<v.projectProfile.geoCoordinates,
                                      v.projectProfile.timeline,
                                      v.beneficiary.kpisPresent>>), 3)
           /\ IsRounded(Res.scores.compliance,
                        25 * Checks(<<v.financial.gstComponents,
                                      v.financial.omFourYears,
                                      v.certificates.nonDuplication,
                                      v.certificates.landAvailability>>), 4)
           /\ IsRounded(Res.scores.technicalQuality,
                        25 * Checks(<<v.technical.gatiShaktiAligned,
                                      v.technical.sorBasis>>), 2)

\* a ratio that falls on a half and is rounded up: 2 of 4 checks out of 25
C7_Witness ==
  /\ out.fn = "score"
  /\ Len(args.flags) = 4 /\ Checks(args.flags) = 2 /\ args.outOf = 25
  /\ out.value = 13

\* C8: the rule messages buildRecommendations returns are exactly those of
\* the rules whose predicate holds (flags.budgetMismatch, flags.timelineIssues,
\* flags.missingData, delayRisk > 0.5, compliance < 20, technicalQuality < 18),
\* each once, in that order; nothing else is returned but the fallback
\* message when no rule holds.
C8_RulesInOrder ==
  RecsApplied =>
    LET v == out.value
    IN  /\ \A i \in 1..6 : RuleHolds(i) <=> (\E j \in 1..Len(v) : v[j] = RuleMessages[i])
        /\ \A j1, j2 \in 1..Len(v) : j1 # j2 => v[j1] # v[j2]
        /\ \A j1, j2 \in 1..Len(v) : \A i1, i2 \in 1..6 :
             (j1 < j2 /\ v[j1] = RuleMessages[i1] /\ v[j2] = RuleMessages[i2]) => i1 < i2
        /\ \A j \in 1..Len(v) :
             \/ \E i \in 1..6 : v[j] = RuleMessages[i]
             \/ (v[j] = RecStrong /\ \A i \in 1..6 : ~RuleHolds(i))

\* all six rules fire, the three thresholds passed by the least margin
C8_Witness ==
  /\ RecsApplied
  /\ args.risk.delayRisk = 501 /\ args.scores.compliance = 19
  /\ args.scores.technicalQuality = 17
  /\ out.value = RuleMessages

\* C9: with b = seed mod 100 (baseRisk = b / 100), the three risks are
\* clamp01(0.7 baseRisk + 0.2 if omFourYears is false),
\* clamp01(0.6 baseRisk + 0.25 if timeline is false) and
\* clamp01(0.5 baseRisk + 0.2 if gatiShaktiAligned is false), each in [0, 1]
\* (in thousandths).
C9_RiskFormula ==
  Analyzed =>
    LET b == SeedMod(Seed, 100)
        v == Res.validation
        r == Res.risk
    IN  /\ r.costOverrunRisk =
             Clamped(7 * b + (IF ~v.financial.omFourYears THEN 200 ELSE 0), 0, 1000)
        /\ r.delayRisk =
             Clamped(6 * b + (IF ~v.projectProfile.timeline THEN 250 ELSE 0), 0, 1000)
        /\ r.implementationRisk =
             Clamped(5 * b + (IF ~v.technical.gatiShaktiAligned THEN 200 ELSE 0), 0, 1000)
        /\ \A x \in {r.costOverrunRisk, r.delayRisk, r.implementationRisk} :
             0 <= x /\ x <= 1000

\* a seed for which all three pieces of evidence are missing
C9_Witness ==
  /\ Analyzed
  /\ ~Res.validation.financial.omFourYears
  /\ ~Res.validation.projectProfile.timeline
  /\ ~Res.validation.technical.gatiShaktiAligned
  /\ SeedMod(Seed, 100) > 0

\* C10: the total of a processDocument result is the sum of the four
\* sub-scores, which the clamp into [0, 100] leaves unchanged.
C10_TotalIsRawSum ==
  Analyzed =>
    LET sum == Res.scores.completeness + Res.scores.compliance
               + Res.scores.technicalQuality + Res.scores.impactSustainability
    IN  /\ Res.scores.total = Clamped(sum, 0, MaxTotal)
        /\ Res.scores.total = sum

\* the largest sum that can arise, 30 + 25 + 25 + 20, on the edge of the clamp
C10_Witness ==
  /\ Analyzed
  /\ Res.scores.completeness + Res.scores.compliance
       + Res.scores.technicalQuality + Res.scores.impactSustainability = MaxTotal
  /\ Res.scores.total = MaxTotal

\* a dimension of the validation none of whose checks found evidence
NoEvidence(dimension) == \A k \in DOMAIN dimension : ~dimension[k]

\* C11: when a whole dimension of the evidence has no evidence (every check
\* of the dimension is false) the processDocument call fails with
\* InsufficientEvidenceError: it hands back no result and stores none for the
\* document; otherwise (single checks missing inside a dimension) it hands
\* back a result.
C11_MissingDimensionFails ==
  Analyzed =>
    LET v == ValidationOf(Seed)
    IN  IF \E d \in DOMAIN v : NoEvidence(v[d])
        THEN /\ returned.value.kind = "InsufficientEvidenceError"
             /\ returned.call.uploadId \notin DOMAIN resultsMap
        ELSE returned.value.kind = "value"

\* C13: the step in which a processDocument call resumes and returns leaves
\* the module-level document list and results map as they were.
C13_ProcessDocumentLeavesStore ==
  [][(\E c \in PendingOf("processDocument") : pending' = Resume(c))
       => (dprs' = dprs /\ resultsMap' = resultsMap)]_vars

\* C14: once a result is stored for a document id, in the api results map
\* or in the context's results, no later call changes the result stored for
\* that id.
C14_StoredResultImmutable ==
  [][/\ \A k \in DOMAIN resultsMap :
          k \in DOMAIN resultsMap' /\ resultsMap'[k] = resultsMap[k]
     /\ \A k \in DOMAIN results :
          k \in DOMAIN results' /\ results'[k] = results[k]]_vars

\* C15: at the base risk b / 100 of a result, a risk whose supporting
\* evidence is present is the clamped weighted base risk, and a risk whose
\* supporting evidence is absent is greater than or equal to that value:
\* costOverrunRisk against omFourYears, delayRisk against timeline,
\* implementationRisk against gatiShaktiAligned (in thousandths).
C15_EvidenceGapNeverLowersRisk ==
  Analyzed =>
    LET b == SeedMod(Seed, 100)
        v == Res.validation
        r == Res.risk
        WithEvidence(weight) == Clamped(weight * b, 0, 1000)
    IN  /\ IF v.financial.omFourYears
           THEN r.costOverrunRisk = WithEvidence(7)
           ELSE r.costOverrunRisk >= WithEvidence(7)
        /\ IF v.projectProfile.timeline
           THEN r.delayRisk = WithEvidence(6)
           ELSE r.delayRisk >= WithEvidence(6)
        /\ IF v.technical.gatiShaktiAligned
           THEN r.implementationRisk = WithEvidence(5)
           ELSE r.implementationRisk >= WithEvidence(5)

\* a result with the timeline evidence absent and a delay risk above the one
\* the same base risk gives with the evidence present
C15_Witness ==
  /\ Analyzed
  /\ ~Res.validation.projectProfile.timeline
  /\ Res.validation.financial.omFourYears
  /\ SeedMod(Seed, 100) >= 50
  /\ Res.risk.delayRisk > 6 * SeedMod(Seed, 100)

\* the four compliance checks of a validation
ComplianceChecks(v) ==
  <<v.financial.gstComponents, v.financial.omFourYears,
    v.certificates.nonDuplication, v.certificates.landAvailability>>

\* C16: four checks none of which is true score 0 out of 25; in every
\* processDocument result the compliance score is 0 when none of the four
\* compliance checks is true, and the recommendations contain the
\* compliance-remediation message exactly when at least one of the four
\* checks is false.
C16_ComplianceRemediation ==
  /\ (out.fn = "score" /\ Len(args.flags) = 4 /\ Checks(args.flags) = 0
        /\ args.outOf = 25) => out.value = 0
  /\ Analyzed =>
       LET c == ComplianceChecks(Res.validation)
           recs == Res.recommendations
       IN  /\ Checks(c) = 0 => Res.scores.compliance = 0
           /\ (\E j \in 1..Len(recs) : recs[j] = RecCompliance) <=> Checks(c) < 4

\* the fewest compliance checks processDocument can find true: one of four
\* (nonDuplication is always true), scored 6, with the message present
C16_Witness ==
  /\ Analyzed
  /\ Checks(ComplianceChecks(Res.validation)) = 1
  /\ Res.scores.compliance = 6
  /\ \E j \in 1..Len(Res.recommendations) : Res.recommendations[j] = RecCompliance

\* C17: the consistency flags of a processDocument result come from their
\* own signals (seed mod 4, the timeline evidence, seed mod 6) whatever the
\* score is, so a result graded Excellent with a total of at least 90 can
\* carry a true flag: whenever the signal of budgetMismatch is present the
\* flag is true, also in a result graded Excellent.
C17_FlagsIndependentOfScore ==
  Analyzed =>
    /\ Res.flags.budgetMismatch = (SeedMod(Seed, 4) = 0)
    /\ Res.flags.timelineIssues = ~Res.validation.projectProfile.timeline
    /\ Res.flags.missingData = (SeedMod(Seed, 6) = 0)
    /\ (Res.scores.grade = "Excellent" /\ SeedMod(Seed, 4) = 0)
         => Res.flags.budgetMismatch

\* a result graded Excellent, total at least 90, that carries a true flag
C17_Witness ==
  /\ Analyzed
  /\ Res.scores.grade = "Excellent" /\ Res.scores.total >= 90
  /\ \/ Res.flags.budgetMismatch
     \/ Res.flags.timelineIssues
     \/ Res.flags.missingData

\* C18: in every processDocument result flags.ineligibleSector is true when
\* eligibility.negativeList is true and has no value (is never false) when
\* negativeList is false.
C18_IneligibleSectorOnlyWhenTrue ==
  Analyzed =>
    IF Res.eligibility.negativeList
    THEN "ineligibleSector" \in DOMAIN Res.flags /\ Res.flags.ineligibleSector
    ELSE "ineligibleSector" \notin DOMAIN Res.flags

\* a result for a seed divisible by 9: negativeList and ineligibleSector true
C18_Witness ==
  /\ Analyzed
  /\ SeedMod(Seed, 9) = 0
  /\ Res.eligibility.negativeList
  /\ "ineligibleSector" \in DOMAIN Res.flags /\ Res.flags.ineligibleSector

\* the arrows of the lifecycle uploaded -> processing -> completed | failed
StatusArrows ==
  {<<"uploaded", "processing">>, <<"processing", "completed">>,
   <<"processing", "failed">>}

\* every document kept by a list across a step keeps its status or moves
\* along one arrow; both lists grow at the front only, so a document is told
\* by its place counted from the end
FollowsLifecycle(before, after) ==
  \A k \in 0..(Len(before) - 1) :
    k < Len(after) =>
      LET was == before[Len(before) - k].status
          is == after[Len(after) - k].status
      IN  is = was \/ <<was, is>> \in StatusArrows

\* C19: in the api module's list and in the context's list, every change of
\* a document's status is one arrow of uploaded -> processing ->
\* completed | failed (so status never moves backwards and completed and
\* failed are terminal).
C19_StatusLifecycle ==
  [][FollowsLifecycle(dprs, dprs') /\ FollowsLifecycle(appDprs, appDprs')]_vars

\* C20: for a result getResults builds from a score analysis that carries
\* its maximum total, the grade follows total_score as a percentage of that
\* maximum: Excellent iff at least 90%, Good iff at least 75% and below 90%,
\* Fair iff at least 60% and below 75%, Poor iff below 60%.
C20_BackendGradeByPercentage ==
  (/\ out.fn = "getResults"
   /\ "scoreAnalysis" \in DOMAIN args.data
   /\ "max_score" \in DOMAIN args.data.scoreAnalysis) =>
    LET t == args.data.scoreAnalysis.total_score
        m == args.data.scoreAnalysis.max_score
        g == out.value.scores.grade
    IN  /\ g = "Excellent" <=> 100 * t >= 90 * m
        /\ g = "Good" <=> (100 * t >= 75 * m /\ 100 * t < 90 * m)
        /\ g = "Fair" <=> (100 * t >= 60 * m /\ 100 * t < 75 * m)
        /\ g = "Poor" <=> 100 * t < 60 * m

\* C21: every result getResults hands back has at least one recommendation.
C21_BackendRecommendationsNonEmpty ==
  (returned.op = "getResults" /\ returned.value.kind = "value")
    => Len(returned.value.value.recommendations) >= 1

\* C22: every value parseRiskScore returns for an overallRiskScore, absent
\* or present, lies in [0, 1].
C22_BackendRiskInUnitInterval ==
  (out.fn = "parseRiskScore" /\ "value" \in DOMAIN out) =>
    (0 <= out.value.m /\ out.value.m <= Pow10(out.value.e))

\* the names under which the methods stronger than keyword matching are shown
StrongerMethodNames ==
  {ANALYSIS_METHODS[m].name : m \in DOMAIN ANALYSIS_METHODS \ {"keyword_fallback"}}

\* C23: the badge of a category score card shows the method recorded in
\* method_used; a result whose method_used is missing or unknown is never
\* shown under the name of a stronger method.
C23_BadgeReflectsMethodUsed ==
  out.fn = "CategoryScoreCard" =>
    IF "method_used" \in DOMAIN args.result
         /\ args.result.method_used \in DOMAIN ANALYSIS_METHODS
    THEN out.value.badge = ANALYSIS_METHODS[args.result.method_used].name
    ELSE out.value.badge \notin StrongerMethodNames

\* the handleUpload run has ended: setBusy(false) and router.push have run
HandleUploadEnded == page.left /\ ~page.busy

\* C26: every run of handleUpload with a selected file terminates with busy =
\* false, currentStep = 6 and progress = 100; during the run currentStep and
\* progress never decrease; and when the page navigates to the results view
\* the document heads the context list and the context holds its result
\* under uploadId.
C26_HandleUploadCompletes ==
  /\ page.busy ~> (HandleUploadEnded /\ page.currentStep = 6 /\ page.progress = 100)
  /\ [][(page.busy \/ page'.busy) =>
          /\ page'.currentStep >= page.currentStep
          /\ page'.progress >= page.progress]_vars
  /\ [][(~page.left /\ page'.left) =>
          /\ page'.currentStep = 6 /\ page'.progress = 100
          /\ appDprs # <<>>
          /\ appDprs[1].id = page.runs[1].uploadId
          /\ page.runs[1].uploadId \in DOMAIN results
          /\ results[page.runs[1].uploadId] = resultsMap[page.runs[1].uploadId]]_vars

\* the second run of the session has ended and the page has navigated
C26_Witness ==
  /\ HandleUploadEnded /\ page.currentStep = 6 /\ page.progress = 100
  /\ Len(appDprs) = 2 /\ appDprs[1].id \in DOMAIN results

\* C27: at most one handleUpload run is under way per upload page, and the
\* page is busy while it is: a click during a run starts no second run, so
\* one selection is uploaded at most once at a time.
C27_OnePipelinePerPage ==
  /\ Len(page.runs) <= 1
  /\ page.runs # <<>> => page.busy
  /\ PendingUploads <= 1

\* a run stands between two ticks of its second session: the button has been
\* disabled since the click
C27_Witness ==
  /\ Len(page.runs) = 1 /\ page.busy
  /\ page.runs[1].pc = "tick" /\ page.runs[1].step = 3
  /\ Len(appDprs) = 2

\* C24: a ResultsPage opened for an id without a cached result requests the
\* result once: after the fetch has completed no further fetch for the id is
\* issued.
C24_FetchesOnceThenSettles ==
  resultsPage.open => ~resultsPage.repeated

\* what listDprs({ q }) can return for the current search text: the files of
\* the backend or, from the catch branch, the list of the store, filtered by q
AnswersToCurrentQuery ==
  {ListRead(b, [q |-> archivePage.q]) :
     b \in {x \in ListBodies : ~ListThrows(x, [q |-> archivePage.q])}}
  \cup {listDPRs(dprs, [q |-> archivePage.q])}

\* C25: on the archive page, once every list request in flight has been
\* answered, the displayed items are an answer to the current search text q,
\* in whatever order the answers arrived.
C25_ItemsAnswerCurrentQuery ==
  (archivePage.open /\ archivePage.requests = <<>>) =>
    archivePage.items \in AnswersToCurrentQuery

\* the ids a result is stored for: the own keys of the map, and "__proto__"
\* when a result has been made the prototype
Stored(map) ==
  (DOMAIN map \ {ProtoSlot})
  \cup (IF ProtoSlot \in DOMAIN map THEN {ProtoKey} ELSE {})

\* the documents uploadFile has returned so far, most recent first, as
\* they were returned, and whether a processDocument call for the id of
\* each has returned since
Uploaded ==
  [i \in 1..Len(observed.uploads) |->
     observed.uploads[Len(observed.uploads) + 1 - i]]
AnalysedSince ==
  [i \in 1..Len(observed.analysed) |->
     observed.analysed[Len(observed.analysed) + 1 - i]]

\* the uploadIds a processDocument call has returned for
Processed == DOMAIN observed.results

\* C28 as claimed: once every call has returned, the list holds every
\* uploaded document once, most recent first; resultsMap[uploadId] reads
\* the result of every processed uploadId; every list entry with a
\* processed id has status completed and is otherwise as uploaded; the
\* entries of all other ids are as uploaded.
C28_ProcessedEndsCompleted ==
  pending = <<>> =>
    /\ Len(dprs) = Len(Uploaded)
    /\ \A i \in 1..Len(dprs) :
         dprs[i] = IF Uploaded[i].id \in Processed
                   THEN [Uploaded[i] EXCEPT !.status = "completed"]
                   ELSE Uploaded[i]
    /\ \A u \in Processed : Get(resultsMap, u) = Value(observed.results[u])

\* C28 as amended: with uploadFile and processDocument calls overlapping in
\* any order no update of the store is lost. At every moment, and so once
\* every call has returned, the list holds every document uploadFile has
\* returned once, most recent first; the ids a result is stored for are
\* the processed uploadIds, and resultsMap[uploadId] reads the result of the
\* processDocument call for that id that returned last; a list entry
\* has status completed and is otherwise as uploaded when a
\* processDocument call for its id has returned since it was listed; every
\* other entry, also one listed under a processed id after the last
\* processDocument call for that id returned, is as uploaded.
C28_NoLostUpdate ==
  /\ Len(dprs) = Len(Uploaded)
  /\ \A i \in 1..Len(dprs) :
       dprs[i] = IF AnalysedSince[i]
                 THEN [Uploaded[i] EXCEPT !.status = "completed"]
                 ELSE Uploaded[i]
  /\ Stored(resultsMap) = Processed
  /\ \A u \in Processed : Get(resultsMap, u) = Value(observed.results[u])

\* every call has returned, the last of them an uploadFile call whose
\* document carries the id of the older one: the older document was listed
\* when the analysis of that id returned and is completed, the newer one
\* was listed afterwards and is as uploaded, and the result is stored
C28_Witness ==
  /\ pending = <<>> /\ returned.op = "uploadFile"
  /\ Len(dprs) = 2 /\ dprs[1].id = dprs[2].id
  /\ dprs[2].status = "completed" /\ dprs[1].status = "uploaded"
  /\ Processed = {dprs[1].id}
  /\ Get(resultsMap, dprs[1].id) = Value(observed.results[dprs[1].id])

\* s is one of the recommendations of the result
Recommends(s) ==
  \E i \in 1..Len(Res.recommendations) : Res.recommendations[i] = s

\* C29: in every processDocument result budgetMismatch is true exactly when
\* omFourYears is false and missingData is true exactly when
\* gatiShaktiAligned is false; so the budget recommendation comes with the
\* compliance recommendation and the missing-data recommendation with the
\* technical-quality recommendation.
C29_FlagsMirrorValidation ==
  Analyzed =>
    /\ Res.flags.budgetMismatch = ~Res.validation.financial.omFourYears
    /\ Res.flags.missingData = ~Res.validation.technical.gatiShaktiAligned
    /\ Recommends(RecBudget) => Recommends(RecCompliance)
    /\ Recommends(RecMissingData) => Recommends(RecTechnical)

\* a result with both flags raised and all four recommendations
C29_Witness ==
  /\ Analyzed
  /\ Res.flags.budgetMismatch /\ Res.flags.missingData
  /\ Recommends(RecBudget) /\ Recommends(RecCompliance)
  /\ Recommends(RecMissingData) /\ Recommends(RecTechnical)

\* C30: getResults always returns a result or null, never an error: null on
\* a 404, whatever the local map holds; on a failure the local result of the
\* id, or null when there is none; on an OK response the transformed body.
C30_GetResultsNeverThrows ==
  [][\A c \in PendingOf("getResults") :
       pending' = Resume(c) =>
         /\ returned'.op = "getResults"
         /\ returned'.call.dprId = c.dprId
         /\ returned'.value.kind \in {"value", "null"}
         /\ returned'.response = "notFound" => returned'.value = Null
         /\ returned'.response \in Failures =>
              returned'.value = IF c.dprId \in DOMAIN resultsMap
                                THEN Value(resultsMap[c.dprId]) ELSE Null
         /\ returned'.response = "ok" => returned'.value.kind = "value"
         /\ returned'.response \in {"ok", "notFound"} \cup Failures]_vars

=============================================================================
